---- MODULE Spec2Model ----
(***************************************************************************)
(* beacondb: the submission processing engine (src/src/submission),        *)
(* the transmitter model (src/src/model.rs) and the bounding-box and        *)
(* weighted-average geometry (src/src/bounds.rs, src/beacondb/src/bounds.rs)*)
(*                                                                          *)
(* f64 values are modelled as exact rationals <<n, d>> (d > 0, lowest       *)
(* terms); 10^x is computed for the integral exponents the inputs produce.  *)
(***************************************************************************)
EXTENDS Integers, Sequences, FiniteSets, TLC

VARIABLES
    \* ---- database (committed state) ----
    report,        \* table report: id -> [raw, processed_at, processing_error]
    cell,          \* table cell: key -> row
    wifi,          \* table wifi: mac -> row
    bluetooth,     \* table bluetooth: mac -> row
    map,           \* table map: set of h3 cells
    \* ---- one record per engine run (process.rs run) ----
    eng,
    \* ---- history: settled, the store as the last run that found nothing
    \* pending left it, while no report has been submitted since; rerun, whether
    \* a later run has ended since; drained, per report the number of committed
    \* batches it was part of ----
    hist,
    \* ---- geometry kernel, exercised on its own ----
    bnd,           \* a Bounds of src/src/bounds.rs
    legacy,        \* a Bounds of src/beacondb/src/bounds.rs
    added,         \* the boxes (points are degenerate boxes) added to legacy
    points,        \* the (lat, lon) points added to bnd
    wab,           \* a WeightedAverageBounds
    obs,           \* the observations folded into wab so far
    \* ---- the HTTP services ----
    mls_cell,      \* table mls_cell: cell key -> [lat, lon, radius]
    geoip,         \* table geoip: client address -> [latitude, longitude]
    request,       \* the geolocate request served last
    response,      \* the answer it got
    ack,           \* the submission served last and its answer
    \* ---- the report codec, exercised on its own ----
    doc,           \* the raw report handed to the codec
    out,           \* what the codec made of it
    \* ---- the map export (map.rs process) ----
    stream,        \* the cells still to come from the stream q
    lookback_size, \* MapArgs.lookback_size
    clusters,      \* the lookback window, a VecDeque of clusters
    cluster_tx,    \* the clusters sent to the channel, in order
    trail          \* history: the cells streamed so far and what became of them

dbVars == <<report, cell, wifi, bluetooth, map>>
geoVars == <<bnd, legacy, added, points, wab, obs>>
locVars == <<mls_cell, geoip, request, response>>
codecVars == <<doc, out>>
mapVars == <<stream, lookback_size, clusters, cluster_tx, trail>>
vars == <<report, cell, wifi, bluetooth, map, eng, hist, bnd, legacy, added, points, wab, obs,
         mls_cell, geoip, request, response, ack, doc, out, stream, lookback_size, clusters,
         cluster_tx, trail>>

\* Option<T>: None is the empty tuple, Some(v) the one-element tuple
None == <<>>
Some(v) == <<v>>
IsSome(o) == o # <<>>
Unwrap(o) == o[1]
UnwrapOr(o, d) == IF o = <<>> THEN d ELSE o[1]

(***************************************************************************)
(* Exact rational arithmetic standing for f64.                             *)
(***************************************************************************)
Abs(n) == IF n < 0 THEN -n ELSE n

\* The operations are functions of their operands, so that each works on
\* values and not on the expressions that denote them.
Rat == Int \X Int

GcdOf[a \in Nat, b \in Nat] == IF b = 0 THEN a ELSE GcdOf[b, a % b]

Gcd(a, b) == GcdOf[a, b]

QOf[n \in Int, d \in Int] ==
    LET s == IF d < 0 THEN -1 ELSE 1
        g == GcdOf[Abs(n), Abs(d)]
    IN  <<(s * n) \div g, (s * d) \div g>>

\* the rational n/d in lowest terms with a positive denominator
Q(n, d) == QOf[n, d]

R(n) == <<n, 1>>

RAddOf[a \in Rat, b \in Rat] ==
    LET g == GcdOf[a[2], b[2]]
        l == (a[2] \div g) * b[2]
    IN  QOf[a[1] * (l \div a[2]) + b[1] * (l \div b[2]), l]

RAdd(a, b) == RAddOf[a, b]

RNeg(a) == <<-a[1], a[2]>>

RSub(a, b) == RAdd(a, RNeg(b))

RMulOf[a \in Rat, b \in Rat] ==
    LET g1 == GcdOf[Abs(a[1]), b[2]]
        g2 == GcdOf[Abs(b[1]), a[2]]
        h1 == IF g1 = 0 THEN 1 ELSE g1
        h2 == IF g2 = 0 THEN 1 ELSE g2
    IN  QOf[(a[1] \div h1) * (b[1] \div h2), (a[2] \div h2) * (b[2] \div h1)]

RMul(a, b) == RMulOf[a, b]

\* a / b for b # 0
RDiv(a, b) == RMul(a, IF b[1] < 0 THEN <<-b[2], -b[1]>> ELSE <<b[2], b[1]>>)

RLt(a, b) == a[1] * b[2] < b[1] * a[2]
RLe(a, b) == a[1] * b[2] <= b[1] * a[2]
RAbs(a) == <<Abs(a[1]), a[2]>>

RECURSIVE Pow10(_)
Pow10(n) == IF n = 0 THEN 1 ELSE 10 * Pow10(n - 1)

\* 10_f64.powf(x), for x an integer-valued rational
Powf10(x) ==
    CASE x[2] = 1 /\ x[1] >= 0 -> <<Pow10(x[1]), 1>>
      [] x[2] = 1 /\ x[1] < 0  -> <<1, Pow10(-x[1])>>

(***************************************************************************)
(* src/src/bounds.rs: Bounds                                               *)
(***************************************************************************)
BoundsNew(lat, lon) ==
    [min_lat |-> lat, min_lon |-> lon, max_lat |-> lat, max_lon |-> lon]

\* impl Add<(f64, f64)> for Bounds
BoundsAdd(self, lat, lon) ==
    LET a == IF RLt(lat, self.min_lat) THEN [self EXCEPT !.min_lat = lat]
             ELSE IF RLt(self.max_lat, lat) THEN [self EXCEPT !.max_lat = lat]
             ELSE self
    IN  IF RLt(lon, a.min_lon) THEN [a EXCEPT !.min_lon = lon]
        ELSE IF RLt(a.max_lon, lon) THEN [a EXCEPT !.max_lon = lon]
        ELSE a

(***************************************************************************)
(* src/beacondb/src/bounds.rs: Bounds {max: Point, min: Point}             *)
(* a Point is <<x, y>>                                                     *)
(***************************************************************************)
\* Bounds::new(x, y, r) for r = 0: both corners are the centre
LegacyBoundsNew(x, y) == [max |-> <<x, y>>, min |-> <<x, y>>]

\* impl Add<(f64, f64)> for Bounds
LegacyBoundsAddPoint(self, x, y) ==
    LET a == IF RLt(self.max[1], x) THEN [self EXCEPT !.max[1] = x]
             ELSE IF RLt(x, self.min[1]) THEN [self EXCEPT !.min[1] = x]
             ELSE self
    IN  IF RLt(a.max[2], y) THEN [a EXCEPT !.max[2] = y]
        ELSE IF RLt(y, a.min[2]) THEN [a EXCEPT !.min[2] = y]
        ELSE a

\* impl Add for Bounds
LegacyBoundsAdd(self, other) ==
    LET a == IF RLt(self.max[1], other.max[1]) THEN [self EXCEPT !.max[1] = other.max[1]]
             ELSE IF RLt(other.min[1], self.min[1]) THEN [self EXCEPT !.min[1] = other.min[1]]
             ELSE self
    IN  IF RLt(a.max[2], other.max[2]) THEN [a EXCEPT !.max[2] = other.max[2]]
        ELSE IF RLt(other.min[2], a.min[2]) THEN [a EXCEPT !.min[2] = other.min[2]]
        ELSE a

(***************************************************************************)
(* src/src/bounds.rs: WeightedAverageBounds                                *)
(***************************************************************************)
WeightedAverageBoundsNew(lat, lon, accuracy, weight) ==
    [min_lat |-> lat, min_lon |-> lon, max_lat |-> lat, max_lon |-> lon,
     lat |-> lat, lon |-> lon, accuracy |-> accuracy, total_weight |-> weight]

\* WabExtend with the bounding box left as it is
WabExtendNone(self, lat, lon) == self

\* the bounding-box part of impl Add<(f64, f64, f64, f64)>
WabExtend(self, lat, lon) ==
    LET a == IF RLt(lat, self.min_lat) THEN [self EXCEPT !.min_lat = lat]
             ELSE IF RLt(self.max_lat, lat) THEN [self EXCEPT !.max_lat = lat]
             ELSE self
    IN  IF RLt(lon, a.min_lon) THEN [a EXCEPT !.min_lon = lon]
        ELSE IF RLt(a.max_lon, lon) THEN [a EXCEPT !.max_lon = lon]
        ELSE a

\* WabMean taking the plain mean of the old and the new value
WabMeanUnweighted(old, total_weight, new, weight) == RDiv(RAdd(old, new), R(2))

\* one weighted mean: ((old * total_weight) + (new * weight)) / (total_weight + weight)
WabMean(old, total_weight, new, weight) ==
    RDiv(RAdd(RMul(old, total_weight), RMul(new, weight)), RAdd(total_weight, weight))

\* impl Add<(f64, f64, f64, f64)> for WeightedAverageBounds
WeightedAverageBoundsAdd(self, lat, lon, accuracy, weight) ==
    LET b == WabExtend(self, lat, lon)
    IN  [b EXCEPT
            !.lat = WabMean(self.lat, self.total_weight, lat, weight),
            !.lon = WabMean(self.lon, self.total_weight, lon, weight),
            !.accuracy = WabMean(self.accuracy, self.total_weight, accuracy, weight),
            !.total_weight = RAdd(self.total_weight, weight)]

(***************************************************************************)
(* src/src/model.rs: Transmitter and its derived ordering                  *)
(***************************************************************************)
CellRadio == {"Gsm", "Wcdma", "Lte", "Nr"}

\* #[repr(i16)] enum CellRadio: the derived Ord follows the discriminants
RadioRank(r) == CASE r = "Gsm" -> 2 [] r = "Wcdma" -> 3 [] r = "Lte" -> 4 [] r = "Nr" -> 5

\* variant order of enum Transmitter: Cell, Wifi, Bluetooth
KindRank(k) == CASE k = "Cell" -> 0 [] k = "Wifi" -> 1 [] k = "Bluetooth" -> 2

\* Option<T>: None sorts before Some(_)
OptLess(a, b) ==
    IF a = None THEN b # None
    ELSE IF b = None THEN FALSE
    ELSE Unwrap(a) < Unwrap(b)

\* the identifying columns of a transmitter, as a tuple of integers
IdTuple(x) ==
    IF x.kind = "Cell"
    THEN <<RadioRank(x.radio), x.country, x.network, x.area, x.cell, x.unit>>
    ELSE <<x.mac>>

RECURSIVE TupleLess(_, _)
TupleLess(a, b) ==
    IF a = <<>> \/ b = <<>> THEN FALSE
    ELSE IF Head(a) # Head(b) THEN Head(a) < Head(b)
    ELSE TupleLess(Tail(a), Tail(b))

\* #[derive(PartialOrd, Ord)] on Transmitter: variant, then every field in
\* declaration order, signal_strength and age included
TransmitterLess(a, b) ==
    IF a.kind # b.kind THEN KindRank(a.kind) < KindRank(b.kind)
    ELSE IF IdTuple(a) # IdTuple(b) THEN TupleLess(IdTuple(a), IdTuple(b))
    ELSE IF a.signal_strength # b.signal_strength
         THEN OptLess(a.signal_strength, b.signal_strength)
    ELSE OptLess(a.age, b.age)

\* the identity of a transmitter: its kind and identifying columns
Ident(x) == <<x.kind, IdTuple(x)>>

\* the table key of a transmitter (the columns of the where / on conflict clause)
CellKey(x) ==
    [radio |-> RadioRank(x.radio), country |-> x.country, network |-> x.network,
     area |-> x.area, cell |-> x.cell, unit |-> x.unit]

\* Transmitter::lookup against the committed tables
Lookup(x, cellT, wifiT, bluetoothT) ==
    CASE x.kind = "Cell" ->
            IF CellKey(x) \in DOMAIN cellT THEN Some(cellT[CellKey(x)]) ELSE None
      [] x.kind = "Wifi" ->
            IF x.mac \in DOMAIN wifiT THEN Some(wifiT[x.mac]) ELSE None
      [] x.kind = "Bluetooth" ->
            \* "... from wifi where mac = $1"
            IF x.mac \in DOMAIN wifiT THEN Some(wifiT[x.mac]) ELSE None

(***************************************************************************)
(* src/src/submission/report.rs: the report codec                          *)
(* A raw report is the JSON document as a record; absent and null fields    *)
(* are None. An SSID is a sequence of characters, "NUL" standing for \0;    *)
(* a MAC address is a number, and a value outside Mac is one that the       *)
(* MacAddress parser rejects.                                               *)
(***************************************************************************)
Mac == 1 .. 7

\* serde: the typed fields deserialize (MacAddress, u32 ages, the radio enum)
\* a u32 field rejects a negative number
IsU32(o) == o = None \/ Unwrap(o) >= 0

WellTyped(raw) ==
    /\ IsU32(raw.position.age)
    /\ \A i \in DOMAIN raw.cellTowers :
          /\ raw.cellTowers[i].radioType \in {"gsm", "wcdma", "lte", "nr"}
          /\ IsU32(raw.cellTowers[i].age)
    /\ \A i \in DOMAIN raw.wifiAccessPoints :
          /\ raw.wifiAccessPoints[i].macAddress \in Mac
          /\ IsU32(raw.wifiAccessPoints[i].age)
    /\ \A i \in DOMAIN raw.bluetoothBeacons :
          /\ raw.bluetoothBeacons[i].macAddress \in Mac
          /\ IsU32(raw.bluetoothBeacons[i].age)

\* should_be_ignored with an absent age taken as 0
should_be_ignored_absent_is_zero(position, transmitter_age) ==
    LET diff == Abs(UnwrapOr(position.age, 0) - UnwrapOr(transmitter_age, 0))
        speed == UnwrapOr(position.speed, R(0))
    IN  \/ diff > 30000
        \/ RLt(R(150000), RMul(speed, R(diff)))

\* fn should_be_ignored(position: &Position, transmitter_age: Option<u32>) -> bool
should_be_ignored(position, transmitter_age) ==
    IF transmitter_age # None /\ position.age # None
    THEN LET diff == Abs(Unwrap(position.age) - Unwrap(transmitter_age))
             speed == UnwrapOr(position.speed, R(0))
         IN  \/ diff > 30000
             \/ RLt(R(150000), RMul(speed, R(diff)))
    ELSE FALSE

\* the values of an i16
IsI16(n) == n >= -32768 /\ n <= 32767

\* i16 arithmetic in a build without overflow checks: the result modulo 2^16
WrapI16(n) == ((n + 32768) % 65536) - 32768

\* fn signal_strength(cell: &Cell) -> Option<i16>, the arithmetic wrapping
signal_strength(c) ==
    IF c.signalStrength # None THEN c.signalStrength
    ELSE IF c.asu # None
         THEN LET asu == Unwrap(c.asu)
              IN  IF asu = 99 THEN None
                  ELSE CASE c.radioType = "gsm"   -> Some(WrapI16(WrapI16(2 * asu) - 113))
                         [] c.radioType = "wcdma" -> Some(WrapI16(asu - 120))
                         [] c.radioType = "lte"   -> Some(WrapI16(asu - 140))
                         [] c.radioType = "nr"    -> Some(WrapI16(asu - 140))
         ELSE None

\* the calls of signal_strength that panic ("attempt to multiply / subtract
\* with overflow") in a build with overflow checks
signal_strength_overflows(c) ==
    /\ c.signalStrength = None
    /\ c.asu # None
    /\ Unwrap(c.asu) # 99
    /\ LET asu == Unwrap(c.asu)
       IN  CASE c.radioType = "gsm"   -> ~IsI16(2 * asu) \/ ~IsI16((2 * asu) - 113)
             [] c.radioType = "wcdma" -> ~IsI16(asu - 120)
             [] c.radioType = "lte"   -> ~IsI16(asu - 140)
             [] c.radioType = "nr"    -> ~IsI16(asu - 140)

RECURSIVE StripNul(_)
StripNul(s) ==
    IF s = <<>> THEN <<>>
    ELSE IF Head(s) = "NUL" THEN StripNul(Tail(s))
    ELSE <<Head(s)>> \o StripNul(Tail(s))

\* str::contains
Contains(s, sub) ==
    \E i \in 0..(Len(s) - Len(sub)) : SubSeq(s, i + 1, i + Len(sub)) = sub

NoMap == <<"_", "n", "o", "m", "a", "p">>
OptOut == <<"_", "o", "p", "t", "o", "u", "t">>

RadioOf(t) ==
    CASE t = "gsm" -> "Gsm" [] t = "wcdma" -> "Wcdma" [] t = "lte" -> "Lte" [] t = "nr" -> "Nr"


CellKept(position, c) ==
    /\ ~should_be_ignored(position, c.age)
    /\ ~(\/ c.mobileCountryCode = 0
         \/ UnwrapOr(c.locationAreaCode, 0) = 0
         \/ UnwrapOr(c.cellId, 0) = 0
         \/ c.primaryScramblingCode = None)

CellTransmitter(c) ==
    [kind |-> "Cell", radio |-> RadioOf(c.radioType), country |-> c.mobileCountryCode,
     network |-> c.mobileNetworkCode, area |-> Unwrap(c.locationAreaCode),
     cell |-> Unwrap(c.cellId), unit |-> Unwrap(c.primaryScramblingCode), signal_strength |-> signal_strength(c),
     age |-> c.age]

\* WifiKept with hidden networks let through
WifiKeptHidden(position, w) ==
    /\ ~should_be_ignored(position, w.age)
    /\ \/ w.ssid = None
       \/ /\ ~Contains(StripNul(Unwrap(w.ssid)), NoMap)
          /\ ~Contains(StripNul(Unwrap(w.ssid)), OptOut)

\* the access point passes the age rules and the SSID filter
WifiKept(position, w) ==
    /\ ~should_be_ignored(position, w.age)
    /\ w.ssid # None
    /\ StripNul(Unwrap(w.ssid)) # <<>>
    /\ ~Contains(StripNul(Unwrap(w.ssid)), NoMap)
    /\ ~Contains(StripNul(Unwrap(w.ssid)), OptOut)

WifiTransmitter(w) ==
    [kind |-> "Wifi", mac |-> w.macAddress, signal_strength |-> w.signalStrength,
     age |-> w.age]

BluetoothTransmitter(b) ==
    [kind |-> "Bluetooth", mac |-> b.macAddress, signal_strength |-> b.signalStrength,
     age |-> b.age]

RECURSIVE Keep(_, _, _, _)
\* the elements of list that pass kept, mapped by kind, in order
Keep(position, list, kind, i) ==
    IF i > Len(list) THEN <<>>
    ELSE LET e == list[i]
             rest == Keep(position, list, kind, i + 1)
         IN  CASE kind = "Cell" ->
                    IF CellKept(position, e) THEN <<CellTransmitter(e)>> \o rest ELSE rest
               [] kind = "Wifi" ->
                    IF WifiKept(position, e) THEN <<WifiTransmitter(e)>> \o rest ELSE rest
               [] kind = "Bluetooth" ->
                    IF ~should_be_ignored(position, e.age)
                    THEN <<BluetoothTransmitter(e)>> \o rest ELSE rest

\* pub fn extract(raw) -> Result<(Position, Vec<Transmitter>)>
extract(raw) ==
    IF ~WellTyped(raw) THEN [err |-> Some("invalid type")]
    ELSE [err |-> None,
          pos |-> raw.position,
          txs |-> Keep(raw.position, raw.cellTowers, "Cell", 1)
                  \o Keep(raw.position, raw.wifiAccessPoints, "Wifi", 1)
                  \o Keep(raw.position, raw.bluetoothBeacons, "Bluetooth", 1)]

\* report::load: Err on a parse failure, Ok(None) for an ignored report,
\* Ok(Some((position, transmitters))) otherwise
load(raw) ==
    LET e == extract(raw)
    IN  IF e.err # None THEN [err |-> e.err, some |-> FALSE]
        ELSE IF \/ (e.pos.accuracy # None /\ RLt(R(250), Unwrap(e.pos.accuracy)))
                \/ (e.pos.altitude # None /\ RLt(R(5000), Unwrap(e.pos.altitude)))
             THEN [err |-> None, some |-> FALSE]
             ELSE [err |-> None, some |-> TRUE, pos |-> e.pos, txs |-> e.txs]

(***************************************************************************)
(* The Wi-Fi filter of the older engine, src/beacondb/src/process.rs, and  *)
(* of the importers, src/bcap/src/utils.rs. " " is a space.                *)
(***************************************************************************)
Output == <<"_", "o", "u", "t", "p", "u", "t">>

\* for wifi in parsed.wifi_access_points: is the access point pushed
LegacyWifiKept(w) ==
    /\ w.ssid # None
    /\ StripNul(Unwrap(w.ssid)) # <<>>
    /\ ~Contains(StripNul(Unwrap(w.ssid)), NoMap)
    /\ ~Contains(StripNul(Unwrap(w.ssid)), Output)

RECURSIVE TrimStart(_, _)
\* str::trim_start_matches
TrimStart(s, chars) ==
    IF s # <<>> /\ Head(s) \in chars THEN TrimStart(Tail(s), chars) ELSE s

RECURSIVE TrimEnd(_, _)
\* str::trim_end_matches
TrimEnd(s, chars) ==
    IF s # <<>> /\ s[Len(s)] \in chars THEN TrimEnd(SubSeq(s, 1, Len(s) - 1), chars) ELSE s

\* str::trim, str::trim_matches
TrimMatches(s, chars) == TrimEnd(TrimStart(s, chars), chars)

\* pub fn normalize_ssid(ssid: Option<&str>) -> Option<&str>
normalize_ssid(ssid) ==
    IF IsSome(ssid)
    THEN LET t == TrimMatches(TrimMatches(Unwrap(ssid), {" "}), {"NUL"})
         IN  IF t # <<>> /\ ~Contains(t, NoMap) /\ ~Contains(t, OptOut) THEN Some(t)
             ELSE None
    ELSE None

(***************************************************************************)
(* src/src/submission/process.rs: the weight and accuracy of one           *)
(* observation (lines 101-173)                                             *)
(***************************************************************************)
SIGNAL_DROP_COEFFICIENT == 3

BASE_RSSI == -30

\* metres per degree of arc on the sphere geo's Rhumb uses (6371008.8 m)
MetresPerDegree == 111195

\* Rhumb.destination(Point::new(x, y), bearing, distance) for a bearing along
\* the meridian (0 or 180 degrees): the point's y moves, its x does not
RhumbDestination(x, y, bearing, distance) ==
    LET d == RDiv(distance, R(MetresPerDegree))
    IN  CASE bearing = R(0)   -> <<x, RAdd(y, d)>>
          [] bearing = R(180) -> <<x, RSub(y, d)>>

\* speed * (wifi_age - pos_age) / 1000 when the three are known, else 0
distance_since_scan(pos, x) ==
    IF IsSome(pos.speed) /\ IsSome(x.age) /\ IsSome(pos.age)
    THEN RDiv(RMul(Unwrap(pos.speed), R(Unwrap(x.age) - Unwrap(pos.age))), R(1000))
    ELSE R(0)

\* the (lat, lon) the observation of x is credited at: transmitter_scan_pos
\* .x_y() when speed, both ages and the heading are known, else the position
transmitter_scan_pos(pos, x) ==
    IF IsSome(pos.speed) /\ IsSome(x.age) /\ IsSome(pos.age) /\ IsSome(pos.heading)
    THEN RhumbDestination(pos.latitude, pos.longitude, Unwrap(pos.heading),
                          RNeg(distance_since_scan(pos, x)))
    ELSE <<pos.latitude, pos.longitude>>

\* the (lat, lon, accuracy, weight) credited for transmitter x seen from pos
Credit(pos, x) ==
    LET rssi == UnwrapOr(x.signal_strength, -90)
        at == transmitter_scan_pos(pos, x)
        distance_from_transmitter ==
            Powf10(Q(BASE_RSSI - rssi, 10 * SIGNAL_DROP_COEFFICIENT))
        signal_weight == Powf10(Q(rssi, 10 * SIGNAL_DROP_COEFFICIENT))
        age_weight == Powf10(RDiv(RNeg(RAbs(distance_since_scan(pos, x))), R(25)))
        gnss_accuracy_weight ==
            Powf10(RDiv(RNeg(UnwrapOr(pos.accuracy, R(10))), R(10)))
    IN  [lat |-> at[1], lon |-> at[2],
         accuracy |-> RAdd(distance_from_transmitter, UnwrapOr(pos.accuracy, R(0))),
         weight |-> RMul(RMul(signal_weight, age_weight), gnss_accuracy_weight)]

\* pos.to_cell(resolution): the tile of a position, one tile per degree square
H3Cell(pos) ==
    <<pos.latitude[1] \div pos.latitude[2], pos.longitude[1] \div pos.longitude[2]>>

(***************************************************************************)
(* The raw reports clients submit.                                         *)
(***************************************************************************)
Position(lat, lon, accuracy) ==
    [latitude |-> R(lat), longitude |-> R(lon), speed |-> None, age |-> None,
     accuracy |-> accuracy, heading |-> None, altitude |-> None]

WifiAp(mac, signal) ==
    [macAddress |-> mac, ssid |-> Some(<<"h", "o", "m", "e">>), age |-> None,
     signalStrength |-> Some(signal)]

Beacon(mac, signal) ==
    [macAddress |-> mac, age |-> None, signalStrength |-> Some(signal)]

Raw(ts, position, cells, wifis, bts) ==
    [timestamp |-> ts, position |-> position, cellTowers |-> cells,
     wifiAccessPoints |-> wifis, bluetoothBeacons |-> bts]

\* one Wi-Fi access point, accuracy unknown
RawWifiA == Raw(1, Position(1, 1, None), <<>>, <<WifiAp(1, -60)>>, <<>>)
\* the same access point from elsewhere, with a perfect fix
RawWifiB == Raw(2, Position(3, 2, Some(R(0))), <<>>, <<WifiAp(1, -30)>>, <<>>)
\* the same access point, same signal, from a third place
RawWifiC == Raw(9, Position(3, 3, None), <<>>, <<WifiAp(1, -60)>>, <<>>)
\* one access point listed twice with two signal strengths
RawWifiTwice ==
    Raw(3, Position(2, 2, None), <<>>, <<WifiAp(1, -60), WifiAp(1, -30)>>, <<>>)
\* a Bluetooth beacon whose MAC is also that of the access point
RawBluetooth == Raw(4, Position(2, 3, None), <<>>, <<>>, <<Beacon(1, -60)>>)
\* a negative position accuracy
RawNegAccuracy == Raw(5, Position(1, 3, Some(R(-10))), <<>>, <<WifiAp(2, -30)>>, <<>>)
\* a MAC address that does not parse
RawBadMac == Raw(6, Position(3, 3, None), <<>>, <<WifiAp(0, -60)>>, <<Beacon(2, -60)>>)
\* position accuracy above 250 m: the report is ignored
RawInaccurate == Raw(7, Position(3, 1, Some(R(300))), <<>>, <<WifiAp(2, -60)>>, <<>>)
\* a moving reporter seeing an LTE cell, signal given as ASU
RawCell ==
    Raw(8, [Position(2, 1, None) EXCEPT !.speed = Some(R(25)), !.age = Some(0)],
        <<[radioType |-> "lte", mobileCountryCode |-> 208, mobileNetworkCode |-> 10,
           locationAreaCode |-> Some(1234), cellId |-> Some(56789),
           primaryScramblingCode |-> Some(1), age |-> Some(1000),
           signalStrength |-> None, asu |-> Some(50)]>>,
        <<>>, <<>>)

\* an altitude above 5000 m, with a cell, an access point and a beacon in sight
RawHigh ==
    Raw(10, [Position(2, 3, Some(R(5))) EXCEPT !.altitude = Some(R(6000))],
        RawCell.cellTowers, <<WifiAp(3, -60)>>, <<Beacon(3, -60)>>)

Payloads ==
    {RawWifiA, RawWifiB, RawWifiC, RawWifiTwice, RawBluetooth, RawNegAccuracy, RawBadMac,
     RawInaccurate, RawCell, RawHigh}

(***************************************************************************)
(* The database. Writes made through a transaction are held in the engine's *)
(* write sets until commit; a row written by an open transaction is locked  *)
(* against the writes of every other one. Reads see committed rows (READ    *)
(* COMMITTED, the default of the pool).                                     *)
(***************************************************************************)
MaxReports == 2

\* "limit 10000" of the fetch, scaled to the model
BatchLimit == 2

Engines == {1, 2}

EmptyFn == [x \in {} |-> {}]

Store == [report |-> report, cell |-> cell, wifi |-> wifi, bluetooth |-> bluetooth,
          map |-> map]

Idle == [pc |-> "idle", reports |-> <<>>, i |-> 0, pos |-> None, txs |-> <<>>,
         modified |-> EmptyFn, h3s |-> {}, marks |-> EmptyFn,
         wCell |-> EmptyFn, wWifi |-> EmptyFn, wBluetooth |-> EmptyFn, wMap |-> {},
         pendingKeys |-> {}, pendingTiles |-> {},
         snap |-> None, committed |-> 0, failedAt |-> "", stats |-> None]

InTx(e) == eng[e].pc \in {"mark", "seterror", "observe", "upsert", "tile", "commit"}

(***************************************************************************)
(* src/src/submission/geosubmit.rs: insert, for a submission of one item   *)
(***************************************************************************)
\* Submit with "replace into" for "insert ignore": a duplicate takes the stored
\* row's place as a fresh pending row
SubmitReplace(raw) ==
    LET row == [timestamp |-> raw.timestamp, latitude |-> raw.position.latitude,
                longitude |-> raw.position.longitude, user_agent |-> None, raw |-> raw,
                processed_at |-> FALSE, processing_error |-> None]
        dup == {id \in DOMAIN report :
                    /\ report[id].timestamp = raw.timestamp
                    /\ report[id].latitude = raw.position.latitude
                    /\ report[id].longitude = raw.position.longitude
                    /\ report[id].user_agent = None}
    IN  /\ IF dup = {} THEN /\ Len(report) < MaxReports
                            /\ report' = Append(report, row)
           ELSE report' = [id \in DOMAIN report |-> IF id \in dup THEN row ELSE report[id]]
        /\ hist' = [hist EXCEPT !.settled = None, !.rerun = FALSE]
        /\ UNCHANGED <<cell, wifi, bluetooth, map, eng, geoVars, locVars, codecVars, mapVars, ack>>

Submit(raw) ==
    /\ Len(report) < MaxReports
    /\ \* insert ignore: the unique key (timestamp, latitude, longitude, user_agent)
       ~\E id \in DOMAIN report :
            /\ report[id].timestamp = raw.timestamp
            /\ report[id].latitude = raw.position.latitude
            /\ report[id].longitude = raw.position.longitude
            /\ report[id].user_agent = None
    /\ report' = Append(report,
            [timestamp |-> raw.timestamp, latitude |-> raw.position.latitude,
             longitude |-> raw.position.longitude, user_agent |-> None, raw |-> raw,
             processed_at |-> FALSE, processing_error |-> None])
    /\ hist' = [hist EXCEPT !.settled = None, !.rerun = FALSE]
    /\ UNCHANGED <<cell, wifi, bluetooth, map, eng, geoVars, locVars, codecVars, mapVars, ack>>

(***************************************************************************)
(* src/src/submission/geosubmit.rs: service and insert, for a submission   *)
(* of several items. The User-Agent header is absent (None), a string, or  *)
(* bytes that are not a string.                                            *)
(***************************************************************************)
\* the header values HeaderValue::to_str rejects
InvalidUserAgents == {"\\xff"}

\* the stored rows with the key (timestamp, latitude, longitude, user_agent)
Conflicts(rep, item, ua) ==
    {id \in DOMAIN rep :
        /\ rep[id].timestamp = item.timestamp
        /\ rep[id].latitude = item.position.latitude
        /\ rep[id].longitude = item.position.longitude
        /\ rep[id].user_agent = ua}

\* one "insert into" that takes every row
InsertAlways(rep, item, ua) ==
    Append(rep, [timestamp |-> item.timestamp, latitude |-> item.position.latitude,
                 longitude |-> item.position.longitude, user_agent |-> ua, raw |-> item,
                 processed_at |-> FALSE, processing_error |-> None])

\* one "insert ignore into submission (...) values (...)"
InsertIgnore(rep, item, ua) ==
    IF Conflicts(rep, item, ua) # {} THEN rep
    ELSE Append(rep, [timestamp |-> item.timestamp, latitude |-> item.position.latitude,
                      longitude |-> item.position.longitude, user_agent |-> ua,
                      raw |-> item, processed_at |-> FALSE, processing_error |-> None])

RECURSIVE InsertItems(_, _, _)
\* for report in submission.items, inside the transaction
InsertItems(rep, items, ua) ==
    IF items = <<>> THEN rep
    ELSE InsertItems(InsertIgnore(rep, Head(items), ua), Tail(items), ua)

\* POST /v2/geosubmit: 400 for a User-Agent that is no string, 500 when the
\* store fails (the transaction is dropped), else the commit and 200
Geosubmit(items, header, storeOk) ==
    LET bad == IsSome(header) /\ Unwrap(header) \in InvalidUserAgents
        rows == InsertItems(report, items, header)
    IN  /\ ack = None
        /\ Len(rows) <= MaxReports
        /\ report' = IF bad \/ ~storeOk THEN report ELSE rows
        /\ ack' = Some([items |-> items, user_agent |-> header,
                        store_error |-> ~bad /\ ~storeOk,
                        status |-> IF bad THEN 400 ELSE IF storeOk THEN 200 ELSE 500])
        /\ hist' = [hist EXCEPT !.settled = None, !.rerun = FALSE]
        /\ UNCHANGED <<cell, wifi, bluetooth, map, eng, geoVars, locVars, codecVars, mapVars>>

\* the answer has been sent
Acknowledged ==
    /\ ack # None
    /\ ack' = None
    /\ UNCHANGED <<dbVars, eng, hist, geoVars, locVars, codecVars, mapVars>>

(***************************************************************************)
(* src/src/submission/process.rs: run                                      *)
(***************************************************************************)
\* the operator launches the one-shot command
Start(e) ==
    /\ eng[e].pc \in {"idle", "done", "failed"}
    /\ eng' = [eng EXCEPT ![e] = [Idle EXCEPT !.pc = "fetch"]]
    /\ UNCHANGED <<dbVars, hist, geoVars, locVars, codecVars, mapVars, ack>>

RECURSIVE PendingFrom(_, _)
\* ids of the reports where processed_at is null, from id on, ascending
PendingFrom(rep, id) ==
    IF id > Len(rep) THEN <<>>
    ELSE IF rep[id].processed_at THEN PendingFrom(rep, id + 1)
    ELSE <<id>> \o PendingFrom(rep, id + 1)

\* FetchPending without "where processed_at is null"
FetchAny(rep) ==
    SubSeq([id \in 1..Len(rep) |-> id], 1, IF Len(rep) < BatchLimit THEN Len(rep) ELSE BatchLimit)

\* select ... where processed_at is null order by id limit 10000
FetchPending(rep) ==
    LET all == PendingFrom(rep, 1)
    IN  SubSeq(all, 1, IF Len(all) < BatchLimit THEN Len(all) ELSE BatchLimit)

\* the statistics written after the loop
Stats ==
    [total_wifi |-> Cardinality(DOMAIN wifi),
     total_cell |-> Cardinality(DOMAIN cell),
     total_bluetooth |-> Cardinality(DOMAIN bluetooth),
     total_countries |-> Cardinality({k.country : k \in DOMAIN cell}),
     total_reports |-> Len(report)]

\* pool.begin() and the select; an empty result ends the run
Fetch(e) ==
    /\ eng[e].pc = "fetch"
    /\ LET q == FetchPending(report)
       IN  IF q = <<>>
           THEN /\ eng' = [eng EXCEPT ![e] = [Idle EXCEPT !.pc = "done",
                                              !.committed = eng[e].committed,
                                              !.stats = Some(Stats)]]
                /\ hist' = [hist EXCEPT
                                !.settled = IF hist.settled = None THEN Some(Store) ELSE @,
                                !.rerun = IsSome(hist.settled)]
           ELSE /\ eng' = [eng EXCEPT ![e] = [Idle EXCEPT !.pc = "mark", !.reports = q,
                                              !.i = 1, !.snap = Some(Store),
                                              !.committed = eng[e].committed]]
                /\ UNCHANGED hist
    /\ UNCHANGED <<dbVars, geoVars, locVars, codecVars, mapVars, ack>>

\* after the last report of the batch: the upserts, the tiles, the commit
FlushStart(r) ==
    [r EXCEPT !.pendingKeys = DOMAIN r.modified, !.pendingTiles = r.h3s,
              !.pc = IF DOMAIN r.modified # {} THEN "upsert"
                     ELSE IF r.h3s # {} THEN "tile" ELSE "commit"]

\* the end of one iteration of "for report in reports"
AfterReport(r) ==
    IF r.i < Len(r.reports) THEN [r EXCEPT !.i = r.i + 1, !.pc = "mark"]
    ELSE FlushStart(r)

\* the end of the report's observations: its tile is recorded
AfterObservations(r) ==
    AfterReport([r EXCEPT !.h3s = r.h3s \cup {H3Cell(Unwrap(r.pos))}])

\* Mark without "None => continue": an ignored report is observed like any other
MarkObservesIgnored(e) ==
    /\ eng[e].pc = "mark"
    /\ LET r == eng[e]
           id == r.reports[r.i]
           x == extract(report[id].raw)
           m == [r EXCEPT !.marks = r.marks @@ (id :> [processing_error |-> None])]
       IN  /\ \A f \in Engines \ {e} : id \notin DOMAIN eng[f].marks
           /\ eng' = [eng EXCEPT ![e] =
                  IF IsSome(x.err) THEN [m EXCEPT !.pc = "seterror"]
                  ELSE IF x.txs = <<>> THEN AfterObservations([m EXCEPT !.pos = Some(x.pos)])
                  ELSE [m EXCEPT !.pos = Some(x.pos), !.txs = x.txs, !.pc = "observe"]]
    /\ UNCHANGED <<dbVars, hist, geoVars, locVars, codecVars, mapVars, ack>>

\* update report set processed_at = now(), then report::load
Mark(e) ==
    /\ eng[e].pc = "mark"
    /\ LET r == eng[e]
           id == r.reports[r.i]
           l == load(report[id].raw)
           m == [r EXCEPT !.marks = r.marks @@ (id :> [processing_error |-> None])]
       IN  /\ \A f \in Engines \ {e} : id \notin DOMAIN eng[f].marks
           /\ eng' = [eng EXCEPT ![e] =
                  IF IsSome(l.err) THEN [m EXCEPT !.pc = "seterror"]
                  ELSE IF ~l.some THEN AfterReport(m)
                  ELSE IF l.txs = <<>> THEN AfterObservations([m EXCEPT !.pos = Some(l.pos)])
                  ELSE [m EXCEPT !.pos = Some(l.pos), !.txs = l.txs, !.pc = "observe"]]
    /\ UNCHANGED <<dbVars, hist, geoVars, locVars, codecVars, mapVars, ack>>

\* SetError without the update of processing_error
SetErrorForgets(e) ==
    /\ eng[e].pc = "seterror"
    /\ eng' = [eng EXCEPT ![e] = AfterReport(eng[e])]
    /\ UNCHANGED <<dbVars, hist, geoVars, locVars, codecVars, mapVars, ack>>

\* update report set processing_error = $1, then continue
SetError(e) ==
    /\ eng[e].pc = "seterror"
    /\ LET r == eng[e]
           id == r.reports[r.i]
           l == load(report[id].raw)
       IN  eng' = [eng EXCEPT ![e] =
                AfterReport([r EXCEPT !.marks[id] = [processing_error |-> Some(Unwrap(l.err))]])]
    /\ UNCHANGED <<dbVars, hist, geoVars, locVars, codecVars, mapVars, ack>>

\* modified.get_mut / x.lookup(&pool) / TransmitterLocation::new (lines 175-181)
Fold(modified, x, c, cellT, wifiT, bluetoothT) ==
    IF x \in DOMAIN modified
    THEN [modified EXCEPT ![x] =
            WeightedAverageBoundsAdd(modified[x], c.lat, c.lon, c.accuracy, c.weight)]
    ELSE LET found == Lookup(x, cellT, wifiT, bluetoothT)
         IN  IF IsSome(found)
             THEN modified @@ (x :> WeightedAverageBoundsAdd(Unwrap(found), c.lat, c.lon,
                                                           c.accuracy, c.weight))
             ELSE modified @@ (x :> WeightedAverageBoundsNew(c.lat, c.lon, c.accuracy,
                                                           c.weight))

\* one iteration of "for x in txs"
Observe(e) ==
    /\ eng[e].pc = "observe"
    /\ LET r == eng[e]
           x == Head(r.txs)
           c == Credit(Unwrap(r.pos), x)
           n == [r EXCEPT
                    !.modified = Fold(r.modified, x, c, cell, wifi, bluetooth),
                    !.txs = Tail(r.txs)]
       IN  eng' = [eng EXCEPT ![e] =
                IF Tail(r.txs) = <<>> THEN AfterObservations(n) ELSE n]
    /\ UNCHANGED <<dbVars, hist, geoVars, locVars, codecVars, mapVars, ack>>

\* the least of a set of transmitters in the BTreeMap's order
FirstKey(keys) == CHOOSE k \in keys : \A o \in keys \ {k} : TransmitterLess(k, o)

\* one iteration of "for (x, b) in modified": insert ... on conflict do update
Upsert(e) ==
    /\ eng[e].pc = "upsert"
    /\ LET r == eng[e]
           x == FirstKey(r.pendingKeys)
           b == r.modified[x]
           left == r.pendingKeys \ {x}
           n == [r EXCEPT !.pendingKeys = left,
                          !.pc = IF left # {} THEN "upsert"
                                 ELSE IF r.pendingTiles # {} THEN "tile" ELSE "commit"]
       IN  CASE x.kind = "Cell" ->
                  /\ \A f \in Engines \ {e} : CellKey(x) \notin DOMAIN eng[f].wCell
                  /\ eng' = [eng EXCEPT ![e] =
                                [n EXCEPT !.wCell = (CellKey(x) :> b) @@ r.wCell]]
             [] x.kind = "Wifi" ->
                  /\ \A f \in Engines \ {e} : x.mac \notin DOMAIN eng[f].wWifi
                  /\ eng' = [eng EXCEPT ![e] =
                                [n EXCEPT !.wWifi = (x.mac :> b) @@ r.wWifi]]
             [] x.kind = "Bluetooth" ->
                  /\ \A f \in Engines \ {e} : x.mac \notin DOMAIN eng[f].wBluetooth
                  /\ eng' = [eng EXCEPT ![e] =
                                [n EXCEPT !.wBluetooth = (x.mac :> b) @@ r.wBluetooth]]
    /\ UNCHANGED <<dbVars, hist, geoVars, locVars, codecVars, mapVars, ack>>

\* one iteration of "for h3 in h3s": insert into map ... on conflict do nothing
Tile(e) ==
    /\ eng[e].pc = "tile"
    /\ LET r == eng[e]
           h3 == CHOOSE t \in r.pendingTiles :
                    \A o \in r.pendingTiles \ {t} : TupleLess(t, o)
           left == r.pendingTiles \ {h3}
       IN  /\ \A f \in Engines \ {e} : h3 \notin eng[f].wMap
           /\ eng' = [eng EXCEPT ![e] =
                        [r EXCEPT !.pendingTiles = left,
                                  !.wMap = IF h3 \in map THEN r.wMap ELSE r.wMap \cup {h3},
                                  !.pc = IF left # {} THEN "tile" ELSE "commit"]]
    /\ UNCHANGED <<dbVars, hist, geoVars, locVars, codecVars, mapVars, ack>>

RECURSIVE ApplyMarks(_, _, _)
\* the report table with the transaction's updates of rows id.. applied
ApplyMarks(rep, marks, id) ==
    IF id > Len(rep) THEN rep
    ELSE IF id \notin DOMAIN marks THEN ApplyMarks(rep, marks, id + 1)
    ELSE ApplyMarks(
            [rep EXCEPT ![id].processed_at = TRUE,
                        ![id].processing_error =
                            IF IsSome(marks[id].processing_error)
                            THEN marks[id].processing_error ELSE @],
            marks, id + 1)

\* Commit with the updates of processed_at left out of the transaction
CommitKeepsPending(e) ==
    /\ eng[e].pc = "commit"
    /\ LET r == eng[e]
       IN  /\ report' = report
           /\ cell' = r.wCell @@ cell
           /\ wifi' = r.wWifi @@ wifi
           /\ bluetooth' = r.wBluetooth @@ bluetooth
           /\ map' = map \cup r.wMap
           /\ UNCHANGED hist
           /\ eng' = [eng EXCEPT ![e] = [Idle EXCEPT !.pc = "fetch",
                                                    !.committed = r.committed + 1]]
    /\ UNCHANGED <<geoVars, locVars, codecVars, mapVars, ack>>

\* tx.commit(), and back to the top of the loop
Commit(e) ==
    /\ eng[e].pc = "commit"
    /\ LET r == eng[e]
           ids == {r.reports[j] : j \in DOMAIN r.reports}
       IN  /\ report' = ApplyMarks(report, r.marks, 1)
           /\ cell' = r.wCell @@ cell
           /\ wifi' = r.wWifi @@ wifi
           /\ bluetooth' = r.wBluetooth @@ bluetooth
           /\ map' = map \cup r.wMap
           /\ hist' = [hist EXCEPT
                         !.drained = [id \in DOMAIN hist.drained \cup ids |->
                                        (IF id \in DOMAIN hist.drained
                                         THEN hist.drained[id] ELSE 0)
                                        + (IF id \in ids THEN 1 ELSE 0)]]
           /\ eng' = [eng EXCEPT ![e] = [Idle EXCEPT !.pc = "fetch",
                                                    !.committed = r.committed + 1]]
    /\ UNCHANGED <<geoVars, locVars, codecVars, mapVars, ack>>

\* a store operation of the batch returns an error: "?" leaves run, the
\* transaction is dropped and rolls back
StoreOp(e) ==
    \/ eng[e].pc \in {"fetch", "mark", "seterror", "upsert", "tile", "commit"}
    \/ eng[e].pc = "observe" /\ Head(eng[e].txs) \notin DOMAIN eng[e].modified

\* Fail with the upserts issued on the pool instead of the transaction: those
\* made before the failure stay
FailAutocommit(e) ==
    /\ StoreOp(e)
    /\ cell' = eng[e].wCell @@ cell
    /\ wifi' = eng[e].wWifi @@ wifi
    /\ bluetooth' = eng[e].wBluetooth @@ bluetooth
    /\ eng' = [eng EXCEPT ![e] = [Idle EXCEPT !.pc = "failed",
                                             !.reports = eng[e].reports,
                                             !.snap = eng[e].snap,
                                             !.committed = eng[e].committed,
                                             !.failedAt = eng[e].pc]]
    /\ UNCHANGED <<report, map, hist, geoVars, locVars, codecVars, mapVars, ack>>

Fail(e) ==
    /\ StoreOp(e)
    /\ eng' = [eng EXCEPT ![e] = [Idle EXCEPT !.pc = "failed",
                                             !.reports = eng[e].reports,
                                             !.snap = eng[e].snap,
                                             !.committed = eng[e].committed,
                                             !.failedAt = eng[e].pc]]
    /\ UNCHANGED <<dbVars, hist, geoVars, locVars, codecVars, mapVars, ack>>

Run(e) ==
    \/ Start(e)
    \/ Fetch(e)
    \/ Mark(e)
    \/ SetError(e)
    \/ Observe(e)
    \/ Upsert(e)
    \/ Tile(e)
    \/ Commit(e)
    \/ Fail(e)

(***************************************************************************)
(* The geometry kernel on its own.                                         *)
(***************************************************************************)
MaxSteps == 2

MaxObs == 3

Coord == {0, 1, 2}

\* a box as added to a Bounds: a point is the box of its two equal corners
Box(min_x, min_y, max_x, max_y) == [max |-> <<R(max_x), R(max_y)>>, min |-> <<R(min_x), R(min_y)>>]

Boxes == {Box(a, b, c, d) : <<a, b, c, d>> \in
            {q \in Coord \X Coord \X Coord \X Coord : q[1] <= q[3] /\ q[2] <= q[4]}}

\* the observations (lat, lon, accuracy, weight) fed to the weighted average
Observations ==
    {[lat |-> R(p[1]), lon |-> R(p[2]), accuracy |-> R(p[3]), weight |-> w] :
        p \in {<<0, 0, 1>>, <<1, 3, 10>>, <<2, 1, 5>>}, w \in {<<1, 10>>, R(1), R(3)}}

GeoIdle ==
    /\ bnd = BoundsNew(R(0), R(0))
    /\ legacy = LegacyBoundsNew(R(0), R(0))
    /\ added = {}
    /\ points = {}
    /\ wab = WeightedAverageBoundsNew(R(0), R(0), R(0), R(1))
    /\ obs = <<>>

\* no request served yet, the tables the services read beside the store empty
ServicesIdle ==
    /\ mls_cell = EmptyFn
    /\ geoip = EmptyFn
    /\ request = None
    /\ response = None
    /\ ack = None

\* the codec has been handed nothing
CodecIdle ==
    /\ doc = None
    /\ out = None

\* no export running: an empty stream, an empty window, nothing sent
MapIdle ==
    /\ stream = <<>>
    /\ lookback_size = 1
    /\ clusters = <<>>
    /\ cluster_tx = <<>>
    /\ trail = [streamed |-> <<>>, enclosed |-> {}, absorbed |-> {}, created |-> 0,
                merged |-> 0, returned |-> FALSE]

EngineIdle ==
    /\ report = <<>>
    /\ cell = EmptyFn
    /\ wifi = EmptyFn
    /\ bluetooth = EmptyFn
    /\ map = {}
    /\ eng = [e \in Engines |-> Idle]
    /\ hist = [settled |-> None, rerun |-> FALSE, drained |-> EmptyFn]

\* bounds + (lat, lon), in both implementations (the older one takes (x, y)
\* = (longitude, latitude))
AddPoint(lat, lon) ==
    /\ Cardinality(added) <= MaxSteps
    /\ bnd' = BoundsAdd(bnd, R(lat), R(lon))
    /\ legacy' = LegacyBoundsAddPoint(legacy, R(lon), R(lat))
    /\ added' = added \cup {Box(lon, lat, lon, lat)}
    /\ points' = points \cup {<<R(lat), R(lon)>>}
    /\ UNCHANGED <<dbVars, eng, hist, wab, obs, locVars, ack, codecVars,
                mapVars>>

\* bounds + other
AddBox(other) ==
    /\ Cardinality(added) <= MaxSteps
    /\ legacy' = LegacyBoundsAdd(legacy, other)
    /\ added' = added \cup {other}
    /\ UNCHANGED <<dbVars, eng, hist, bnd, points, wab, obs, locVars, ack, codecVars,
                mapVars>>

\* the weighted update with one more observation
Update(o) ==
    /\ Len(obs) < MaxObs
    /\ wab' = WeightedAverageBoundsAdd(wab, o.lat, o.lon, o.accuracy, o.weight)
    /\ obs' = Append(obs, o)
    /\ UNCHANGED <<dbVars, eng, hist, bnd, legacy, added, points, locVars, ack, codecVars,
                mapVars>>

(***************************************************************************)
(* src/src/geolocate.rs: the geolocate responder                           *)
(* A request is the HTTP request: its body (no bytes, bytes that are not   *)
(* JSON, or a JSON object whose absent keys are None), its Content-Length  *)
(* header and its X-Forwarded-For header.                                  *)
(***************************************************************************)
RECURSIVE Shift10(_, _, _, _)
\* (i + r/d) * 10^k as an integer part and the numerator of the rest
Shift10(i, r, d, k) ==
    IF k = 0 THEN <<i, r>>
    ELSE Shift10(i * 10 + (r * 10) \div d, (r * 10) % d, d, k - 1)

\* (a * 10^k).round(): to the nearest integer, halves away from zero
RoundAt(a, k) ==
    LET n == Abs(a[1])
        m == Shift10(n \div a[2], n % a[2], a[2], k)
        v == m[1] + (IF 2 * m[2] >= a[2] THEN 1 ELSE 0)
    IN  IF a[1] < 0 THEN -v ELSE v

\* f64::round
RRound(a) == RoundAt(a, 0)

\* f64::max
RMax(a, b) == IF RLt(a, b) THEN b ELSE a

\* Bounds::points and TransmitterLocation::points: (min, max) as (x, y) points
BoundsPoints(row) ==
    <<[x |-> row.min_lon, y |-> row.min_lat], [x |-> row.max_lon, y |-> row.max_lat]>>

\* (min + max) / 2.0
Center(min, max) ==
    [x |-> RDiv(RAdd(min.x, max.x), R(2)), y |-> RDiv(RAdd(min.y, max.y), R(2))]

\* Haversine.distance(a, b) in metres, for two points of one meridian: the arc
\* between their latitudes
HaversineDistance(a, b) ==
    CASE a.x = b.x -> RMul(R(MetresPerDegree), RAbs(RSub(a.y, b.y)))

\* serde: i8, i16 and the MacAddress and CellRadio parsers
IsI8(o) == o = None \/ (Unwrap(o) >= -128 /\ Unwrap(o) <= 127)

AccessPointOk(x) == x.macAddress \in Mac /\ IsI8(x.signalStrength)

CellTowerOk(x) == x.radioType \in {"gsm", "wcdma", "lte", "nr"}

\* LocationRequest::default()
LocationRequestDefault ==
    [cell_towers |-> <<>>, wifi_access_points |-> <<>>, consider_ip |-> None,
     fallbacks |-> None]

\* web::Json<LocationRequest>: Err for no bytes, for bytes that are not JSON and
\* for a value of the wrong type; #[serde(default)] for the absent lists
JsonLocationRequest(body) ==
    IF body.kind # "json" THEN [ok |-> FALSE]
    ELSE LET v == body.value
             towers == UnwrapOr(v.cellTowers, <<>>)
             aps == UnwrapOr(v.wifiAccessPoints, <<>>)
         IN  IF /\ \A i \in DOMAIN towers : CellTowerOk(towers[i])
                /\ \A i \in DOMAIN aps : AccessPointOk(aps[i])
             THEN [ok |-> TRUE,
                   data |-> [cell_towers |-> towers, wifi_access_points |-> aps,
                             consider_ip |-> v.considerIp, fallbacks |-> v.fallbacks]]
             ELSE [ok |-> FALSE]

\* the answers of the responder; at is the return statement that produced it
LocationResponseNew(lat, lon, acc, at) ==
    [status |-> 200,
     location |-> Some(<<Q(RoundAt(lat, 6), 1000000), Q(RoundAt(lon, 6), 1000000)>>),
     accuracy |-> Some(RRound(acc)), fallback |-> None, at |-> at]

\* impl From<Bounds> for LocationResponse
LocationResponseFrom(row, at) ==
    LET min == BoundsPoints(row)[1]
        max == BoundsPoints(row)[2]
        center == Center(min, max)
        acc == HaversineDistance(min, center)
    IN  LocationResponseNew(center.y, center.x, RMax(acc, R(50)), at)

Failure(status, at) ==
    [status |-> status, location |-> None, accuracy |-> None, fallback |-> None, at |-> at]

NotFound == Failure(404, "notFound")

\* seen.insert(x.mac_address) with every address taken as new
FreshAlways(seen, mac) == TRUE

\* seen.insert(x.mac_address): true when the address was not in the set
Fresh(seen, mac) == mac \notin seen

\* (1.0..=500.0).contains(&r) without its lower end
InRangeAnyLow(r) == RLe(r, R(500))

\* (1.0..=500.0).contains(&r)
InRange(r) == RLe(R(1), r) /\ RLe(r, R(500))

\* x.signal_strength.unwrap_or_default()
SignalOrDefault(o) == UnwrapOr(o, 0)

\* 10^(signal / (10 * SIGNAL_DROP_COEFFICIENT))
ApWeight(x) ==
    Powf10(RDiv(R(SignalOrDefault(x.signalStrength)),
                RMul(R(10), R(SIGNAL_DROP_COEFFICIENT))))

RECURSIVE WifiLoop(_, _, _, _)
\* for x in data.wifi_access_points: the sums latw, lonw, rw, ww and the count c
WifiLoop(aps, seen, s, wifiT) ==
    IF aps = <<>> THEN s
    ELSE LET x == Head(aps)
             mac == x.macAddress
         IN  IF ~Fresh(seen, mac) THEN WifiLoop(Tail(aps), seen, s, wifiT)
             ELSE IF mac \notin DOMAIN wifiT
                  THEN WifiLoop(Tail(aps), seen \cup {mac}, s, wifiT)
             ELSE LET row == wifiT[mac]
                      min == BoundsPoints(row)[1]
                      max == BoundsPoints(row)[2]
                      r == HaversineDistance(min, Center(min, max))
                      weight == ApWeight(x)
                  IN  IF InRange(r)
                      THEN WifiLoop(Tail(aps), seen \cup {mac},
                                    [latw |-> RAdd(s.latw, RMul(row.lat, weight)),
                                     lonw |-> RAdd(s.lonw, RMul(row.lon, weight)),
                                     rw |-> RAdd(s.rw, RMul(row.accuracy, weight)),
                                     ww |-> RAdd(s.ww, weight),
                                     c |-> s.c + 1],
                                    wifiT)
                      ELSE WifiLoop(Tail(aps), seen \cup {mac}, s, wifiT)

\* the rows of a cell table that a select for tower x returns: on the full key
\* when the request gives a psc, on the first five columns when it gives none
CellMatches(x, keys) ==
    {k \in keys :
        /\ k.radio = RadioRank(RadioOf(x.radioType))
        /\ k.country = x.mobileCountryCode
        /\ k.network = x.mobileNetworkCode
        /\ k.area = x.locationAreaCode
        /\ k.cell = x.cellId
        /\ IsSome(x.psc) => k.unit = Unwrap(x.psc)}

\* fetch_optional: no row, or one of the matching rows (here the lowest unit)
FetchOptional(keys) ==
    IF keys = {} THEN None
    ELSE Some(CHOOSE k \in keys : \A o \in keys : k.unit <= o.unit)

RECURSIVE CellLoop(_, _, _)
\* for x in data.cell_towers: the cell table, then mls_cell, tower by tower
CellLoop(towers, cellT, mlsT) ==
    IF towers = <<>> THEN None
    ELSE LET x == Head(towers)
             row == FetchOptional(CellMatches(x, DOMAIN cellT))
             mls == FetchOptional(CellMatches(x, DOMAIN mlsT))
         IN  IF IsSome(row) THEN Some(LocationResponseFrom(cellT[Unwrap(row)], "cell"))
             ELSE IF IsSome(mls)
                  THEN LET m == mlsT[Unwrap(mls)]
                       IN  Some(LocationResponseNew(m.lat, m.lon, RMax(m.radius, R(50)), "mls"))
             ELSE CellLoop(Tail(towers), cellT, mlsT)

\* consider_ip.unwrap_or(true) || fallbacks...ipf.unwrap_or(true)
ConsiderIpEither(data) ==
    \/ UnwrapOr(data.consider_ip, TRUE)
    \/ UnwrapOr(UnwrapOr(data.fallbacks, [ipf |-> None]).ipf, TRUE)

\* data.consider_ip.unwrap_or(true) && data.fallbacks.unwrap_or_default().ipf.unwrap_or(true)
ConsiderIp(data) ==
    /\ UnwrapOr(data.consider_ip, TRUE)
    /\ UnwrapOr(UnwrapOr(data.fallbacks, [ipf |-> None]).ipf, TRUE)

\* the addresses IpNetwork::from_str accepts
IpAddrs == {"1.2.3.4", "5.6.7.8"}

\* the X-Forwarded-For header parsed as an IpNetwork
ClientIp(xff) == IF IsSome(xff) /\ Unwrap(xff) \in IpAddrs THEN xff ELSE None

\* src/geoip/lookup.sql: the row of the range that holds the address
GeoIpLookup(ip, geoipT) == IF ip \in DOMAIN geoipT THEN Some(geoipT[ip]) ELSE None

\* pub async fn service
service(req, wifiT, cellT, mlsT, geoipT) ==
    LET json == JsonLocationRequest(req.body)
    IN  IF ~json.ok /\ req.content_length # Some("0") THEN Failure(400, "malformed")
        ELSE
        LET data == IF json.ok THEN json.data ELSE LocationRequestDefault
            s == WifiLoop(data.wifi_access_points, {},
                          [latw |-> R(0), lonw |-> R(0), rw |-> R(0), ww |-> R(0), c |-> 0],
                          wifiT)
            found == CellLoop(data.cell_towers, cellT, mlsT)
        IN  IF s.c >= 2
            THEN LocationResponseNew(RDiv(s.latw, s.ww), RDiv(s.lonw, s.ww),
                                     RDiv(s.rw, s.ww), "wifi")
            ELSE IF IsSome(found) THEN Unwrap(found)
            ELSE IF ConsiderIp(data)
                 THEN LET ip == ClientIp(req.xff)
                      IN  IF ip = None THEN Failure(500, "noClientIp")
                          ELSE LET record == GeoIpLookup(Unwrap(ip), geoipT)
                               IN  IF IsSome(record)
                                   THEN [status |-> 200,
                                         location |-> Some(<<Unwrap(record).latitude,
                                                             Unwrap(record).longitude>>),
                                         accuracy |-> Some(25000),
                                         fallback |-> Some("ipf"), at |-> "ipf"]
                                   ELSE NotFound
                 ELSE NotFound

\* one request served against the committed tables; a request shares no state
\* with the one before it
Geolocate(req) ==
    /\ request = None
    /\ request' = Some(req)
    /\ response' = Some(service(req, wifi, cell, mls_cell, geoip))
    /\ UNCHANGED <<dbVars, eng, hist, geoVars, mls_cell, geoip, ack, codecVars, mapVars>>

(***************************************************************************)
(* The tables and the requests the responder is exercised on.              *)
(***************************************************************************)
MaxAps == 3
MaxTowers == 2

\* a row of wifi or cell whose box runs along the meridian lon, from lat0 to lat1
MeridianRow(lat0, lat1, lon, lat, accuracy) ==
    [min_lat |-> lat0, min_lon |-> R(lon), max_lat |-> lat1, max_lon |-> R(lon),
     lat |-> lat, lon |-> R(lon), accuracy |-> R(accuracy), total_weight |-> R(4)]

\* access points 1 and 2 span 111 m each, 3 was seen at one point only, 4 moved
\* over 5.5 km, 5 and 6 have r = 1 m and r = 500 m; 7 has no row
WifiTable ==
    (1 :> MeridianRow(R(0), Q(2, 1000), 1, Q(1, 1000), 25))
    @@ (2 :> MeridianRow(Q(2, 1000), Q(4, 1000), 1, Q(3, 1000), 25))
    @@ (3 :> MeridianRow(Q(5, 1000), Q(5, 1000), 2, Q(5, 1000), 10))
    @@ (4 :> MeridianRow(R(0), Q(1, 10), 2, Q(1, 20), 100))
    @@ (5 :> MeridianRow(R(0), Q(2, MetresPerDegree), 3, Q(1, 100000), 60))
    @@ (6 :> MeridianRow(R(0), Q(1000, MetresPerDegree), 3, Q(4, 1000), 80))

Tower(radio, mcc, mnc, lac, cid, psc) ==
    [radioType |-> radio, mobileCountryCode |-> mcc, mobileNetworkCode |-> mnc,
     locationAreaCode |-> lac, cellId |-> cid, psc |-> psc]

KeyOf(x, unit) ==
    [radio |-> RadioRank(RadioOf(x.radioType)), country |-> x.mobileCountryCode,
     network |-> x.mobileNetworkCode, area |-> x.locationAreaCode, cell |-> x.cellId,
     unit |-> unit]

TowerA == Tower("lte", 208, 10, 1234, 56789, Some(1))
TowerANoPsc == Tower("lte", 208, 10, 1234, 56789, None)
TowerB == Tower("gsm", 262, 1, 5, 77, None)
TowerC == Tower("nr", 310, 26, 9, 4321, Some(3))
TowerD == Tower("wcdma", 208, 1, 7, 99, Some(2))
Towers == {TowerA, TowerANoPsc, TowerB, TowerC, TowerD}

\* cell A spans 111 m, cell D 11 m
CellTable ==
    (KeyOf(TowerA, 1) :> MeridianRow(Q(10, 1000), Q(12, 1000), 5, Q(11, 1000), 40))
    @@ (KeyOf(TowerD, 2) :> MeridianRow(Q(200, 10000), Q(202, 10000), 5, Q(201, 10000), 8))

\* the legacy table knows A (elsewhere), B and D
MlsTable ==
    (KeyOf(TowerA, 1) :> [lat |-> R(40), lon |-> R(6), radius |-> R(1000)])
    @@ (KeyOf(TowerB, 0) :> [lat |-> R(41), lon |-> R(7), radius |-> R(30)])

GeoIpTable == ("1.2.3.4" :> [latitude |-> Q(462, 10), longitude |-> Q(22, 10)])

LocateStores ==
    {[wifi |-> WifiTable, cell |-> CellTable, mls_cell |-> MlsTable, geoip |-> GeoIpTable],
     [wifi |-> WifiTable, cell |-> EmptyFn, mls_cell |-> MlsTable, geoip |-> EmptyFn],
     [wifi |-> EmptyFn, cell |-> CellTable, mls_cell |-> EmptyFn, geoip |-> GeoIpTable],
     [wifi |-> EmptyFn, cell |-> EmptyFn, mls_cell |-> EmptyFn, geoip |-> EmptyFn]}

AccessPoint(mac, signal) == [macAddress |-> mac, signalStrength |-> signal]

Aps ==
    {AccessPoint(1, Some(-30)), AccessPoint(1, None), AccessPoint(2, Some(-60)),
     AccessPoint(3, Some(0)), AccessPoint(4, Some(-30)),
     AccessPoint(5, Some(-30)), AccessPoint(6, None), AccessPoint(7, Some(0))}

\* the sequences over S of length at most n
SeqsUpTo(S, n) == UNION {[1 .. k -> S] : k \in 0 .. n}

JsonBody(towers, aps, considerIp, fallbacks) ==
    [kind |-> "json",
     value |-> [cellTowers |-> towers, wifiAccessPoints |-> aps,
                considerIp |-> considerIp, fallbacks |-> fallbacks]]

HttpRequest(body, content_length, xff) ==
    [body |-> body, content_length |-> content_length, xff |-> xff]

OptBool == {None, Some(TRUE), Some(FALSE)}
Forwarded == {None, Some("1.2.3.4"), Some("5.6.7.8"), Some("unknown")}

\* requests that list access points
WifiRequests ==
    {HttpRequest(JsonBody(towers, Some(aps), None, None), Some("n"), Some("1.2.3.4")) :
        aps \in SeqsUpTo(Aps, MaxAps), towers \in {None, Some(<<TowerA>>)}}

\* requests that list cell towers
CellRequests ==
    {HttpRequest(JsonBody(Some(towers), aps, None, None), Some("n"), Some("5.6.7.8")) :
        towers \in SeqsUpTo(Towers, MaxTowers),
        aps \in {None, Some(<<AccessPoint(1, Some(-30)), AccessPoint(3, Some(0))>>)}}

\* requests that set the fallback switches
IpRequests ==
    {HttpRequest(JsonBody(towers, aps, considerIp, fallbacks), Some("n"), xff) :
        towers \in {None, Some(<<>>), Some(<<TowerB>>)},
        aps \in {None, Some(<<>>), Some(<<AccessPoint(1, Some(-30)), AccessPoint(2, Some(-60))>>)},
        considerIp \in OptBool,
        fallbacks \in {None} \cup {Some([ipf |-> b]) : b \in OptBool},
        xff \in Forwarded}

\* the body {}, no body at all, and bodies that do not deserialize
EmptyObject == JsonBody(None, None, None, None)

BodyRequests ==
    {HttpRequest(EmptyObject, cl, xff) : cl \in {None, Some("n")}, xff \in Forwarded}
    \cup {HttpRequest([kind |-> "empty"], cl, xff) :
            cl \in {None, Some("0")}, xff \in Forwarded}
    \cup {HttpRequest(body, cl, xff) :
            body \in {[kind |-> "malformed"],
                      JsonBody(None, Some(<<AccessPoint(1, Some(-200))>>), None, None),
                      JsonBody(None, Some(<<AccessPoint(0, None)>>), None, None),
                      JsonBody(Some(<<Tower("cdma", 1, 1, 1, 1, None)>>), None, None, None)},
            cl \in {None, Some("n")}, xff \in Forwarded}

Requests == WifiRequests \cup CellRequests \cup IpRequests \cup BodyRequests

(***************************************************************************)
(* Specifications                                                          *)
(***************************************************************************)
\* one engine at a time, with intake running beside it
Init == EngineIdle /\ GeoIdle /\ ServicesIdle /\ CodecIdle /\ MapIdle

Next ==
    \/ \E raw \in Payloads : Submit(raw)
    \/ Run(1)

Spec == Init /\ [][Next]_vars

\* two engine runs launched against the same database
ConcPayloads == {RawWifiA, RawWifiC, RawBadMac}

NextConc ==
    \/ \E raw \in ConcPayloads : Submit(raw)
    \/ \E e \in Engines : Run(e)

SpecConc == Init /\ [][NextConc]_vars

\* bounding boxes grown from a box around one point
InitBounds ==
    /\ EngineIdle
    /\ ServicesIdle
    /\ CodecIdle
    /\ MapIdle
    /\ \E lat \in Coord, lon \in Coord :
          /\ bnd = BoundsNew(R(lat), R(lon))
          /\ legacy = LegacyBoundsNew(R(lon), R(lat))
          /\ added = {Box(lon, lat, lon, lat)}
          /\ points = {<<R(lat), R(lon)>>}
    /\ wab = WeightedAverageBoundsNew(R(0), R(0), R(0), R(1))
    /\ obs = <<>>

NextBounds ==
    \/ \E lat \in Coord, lon \in Coord : AddPoint(lat, lon)
    \/ \E other \in Boxes : AddBox(other)

SpecBounds == InitBounds /\ [][NextBounds]_vars

\* a weighted average created from one observation and updated with more
InitAverage ==
    /\ EngineIdle
    /\ ServicesIdle
    /\ CodecIdle
    /\ MapIdle
    /\ bnd = BoundsNew(R(0), R(0))
    /\ legacy = LegacyBoundsNew(R(0), R(0))
    /\ added = {}
    /\ points = {}
    /\ \E o \in Observations :
          /\ wab = WeightedAverageBoundsNew(o.lat, o.lon, o.accuracy, o.weight)
          /\ obs = <<o>>

NextAverage == \E o \in Observations : Update(o)

SpecAverage == InitAverage /\ [][NextAverage]_vars

\* intake of batches beside the engine
MaxItems == 2

\* the report of RawWifiA again, with another access point in it
RawWifiAgain == Raw(1, Position(1, 1, None), <<>>, <<WifiAp(2, -30)>>, <<>>)

IntakePayloads == {RawWifiA, RawWifiAgain, RawBadMac}
UserAgents == {None, Some("NeoStumbler"), Some("\\xff")}

\* an engine step leaves the acknowledgement alone, so the acknowledgement in
\* flight is delivered first
NextIntake ==
    \/ \E items \in SeqsUpTo(IntakePayloads, MaxItems), header \in UserAgents,
          storeOk \in BOOLEAN : Geosubmit(items, header, storeOk)
    \/ Acknowledged
    \/ (ack = None /\ Run(1))

SpecIntake == Init /\ [][NextIntake]_vars

(***************************************************************************)
(* src/src/map.rs: clustering of the map's cells. An h3 cell index is      *)
(* modelled by the axial coordinates <<a, b>> of a hexagon; its six edges  *)
(* lead, in a fixed order, to its six neighbours. A CellData is            *)
(* [value, edges, consumed] with edges[j] the consumed flag of edge j; a   *)
(* Cluster is the sequence of its CellData.                                *)
(***************************************************************************)
Directions == <<<<1, 0>>, <<0, 1>>, <<-1, 1>>, <<-1, 0>>, <<0, -1>>, <<1, -1>>>>

\* EdgeData.destination of edge j of the cell
Destination(value, j) == <<value[1] + Directions[j][1], value[2] + Directions[j][2]>>

\* CellData::new
CellDataNew(index) ==
    [value |-> index, edges |-> [j \in 1..6 |-> FALSE], consumed |-> FALSE]

\* CellData::neighbors_with: is other a neighbour
IsNeighbor(c, other) == \E j \in 1..6 : Destination(c.value, j) = other

\* CellData::mark_neighbor_consumed, and the marking done by neighbors_with:
\* the first edge that leads to other is consumed
mark_neighbor_consumed(c, other) ==
    IF IsNeighbor(c, other)
    THEN LET i == CHOOSE j \in 1..6 :
                    /\ Destination(c.value, j) = other
                    /\ \A k \in 1..(j - 1) : Destination(c.value, k) # other
         IN  [c EXCEPT !.edges[i] = TRUE]
    ELSE c

\* CellData::is_enclosed: with every edge consumed the cell is marked consumed
is_enclosed(c) == \A j \in 1..6 : c.edges[j]

MarkEnclosed(c) == IF is_enclosed(c) THEN [c EXCEPT !.consumed = TRUE] ELSE c

\* Cluster::new
ClusterNew(initial) == <<CellDataNew(initial)>>

RECURSIVE AddLoop(_, _, _, _)
\* "for c in 0..self.0.len()" of add_when_neighboring, from index c on
AddLoop(self, hex, c, new) ==
    IF c > Len(self) THEN [cluster |-> self, new |-> new]
    ELSE IF ~self[c].consumed /\ IsNeighbor(self[c], hex)
         THEN LET fresh == IF IsSome(new) THEN Unwrap(new) ELSE CellDataNew(hex)
              IN  AddLoop([self EXCEPT ![c] = MarkEnclosed(mark_neighbor_consumed(self[c], hex))],
                          hex, c + 1, Some(mark_neighbor_consumed(fresh, self[c].value)))
         ELSE AddLoop(self, hex, c + 1, new)

\* Cluster::add_when_neighboring: the cluster after the call, whether the hex
\* was found adjacent, and whether it was left out as enclosed at once
add_when_neighboring(self, hex) ==
    LET l == AddLoop(self, hex, 1, None)
    IN  [cluster |-> IF IsSome(l.new) /\ ~is_enclosed(Unwrap(l.new))
                     THEN Append(l.cluster, Unwrap(l.new)) ELSE l.cluster,
         added |-> IsSome(l.new),
         enclosed |-> IsSome(l.new) /\ is_enclosed(Unwrap(l.new))]

\* the edges of the connecting cell consumed in the other cluster's copy are
\* consumed in the first live copy of this cluster
MergeEdges(self, theirs, connecting_cell) ==
    IF \E k \in DOMAIN self : ~self[k].consumed /\ self[k].value = connecting_cell
    THEN LET own == CHOOSE k \in DOMAIN self :
                       /\ ~self[k].consumed /\ self[k].value = connecting_cell
                       /\ \A m \in 1..(k - 1) :
                             self[m].consumed \/ self[m].value # connecting_cell
         IN  [self EXCEPT ![own].edges = [j \in 1..6 |-> self[own].edges[j] \/ theirs.edges[j]]]
    ELSE self

RECURSIVE MergeLoop(_, _, _, _)
\* "for i in 0..other.0.len()" of merge, from index i on
MergeLoop(self, other, connecting_cell, i) ==
    IF i > Len(other) THEN self
    ELSE IF other[i].consumed THEN MergeLoop(self, other, connecting_cell, i + 1)
    ELSE IF other[i].value # connecting_cell
         THEN MergeLoop(Append(self, other[i]), other, connecting_cell, i + 1)
         ELSE MergeLoop(MergeEdges(self, other[i], connecting_cell), other,
                        connecting_cell, i + 1)

\* a merge that copies every live cell of the other cluster, the connecting
\* cell included
merge_copies_connecting_cell(self, other, connecting_cell) ==
    self \o SelectSeq(other, LAMBDA c : ~c.consumed)

\* Cluster::merge
merge(self, other, connecting_cell) == MergeLoop(self, other, connecting_cell, 1)

\* the cell values of a cluster
Values(cluster) == {cluster[k].value : k \in DOMAIN cluster}

\* the values of the cells of a cluster marked consumed
ConsumedValues(cluster) == {cluster[k].value : k \in {m \in DOMAIN cluster : cluster[m].consumed}}

\* "for i in (0..clusters.len()).rev()": the outcome of add_when_neighboring on
\* every cluster of the window
Scan(window, x) == [i \in DOMAIN window |-> add_when_neighboring(window[i], x)]

RECURSIVE AddedTo(_, _)
\* added_to: the indices of the clusters the cell was added to, latest first
AddedTo(scan, i) ==
    IF i = 0 THEN <<>>
    ELSE IF scan[i].added THEN <<i>> \o AddedTo(scan, i - 1)
    ELSE AddedTo(scan, i - 1)

\* VecDeque::remove
Remove(window, idx) == [k \in 1..(Len(window) - 1) |-> IF k < idx THEN window[k] ELSE window[k + 1]]

RECURSIVE MergeAll(_, _, _, _)
RECURSIVE MergeAllKeepsMerged(_, _, _, _)
\* the merging loop leaving the merged cluster in the window
MergeAllKeepsMerged(window, added_to, x, n) ==
    IF n > Len(added_to) THEN window
    ELSE MergeAllKeepsMerged(
             [window EXCEPT ![added_to[1]] = merge(window[added_to[1]], window[added_to[n]], x)],
             added_to, x, n + 1)

\* "for (i, idx) in added_to.iter().enumerate().skip(1)", from position n of
\* added_to on: the cluster at idx is removed and merged into the one at first - i
MergeAll(window, added_to, x, n) ==
    IF n > Len(added_to) THEN window
    ELSE LET idx   == added_to[n]
             first == added_to[1]
             rest  == Remove(window, idx)
             into  == first - (n - 1)
         IN  MergeAll([rest EXCEPT ![into] = merge(rest[into], window[idx], x)],
                      added_to, x, n + 1)

\* one iteration of "while let Some(x) = q.try_next()" of process
ProcessCell ==
    /\ stream # <<>>
    /\ ~trail.returned
    /\ LET x        == Head(stream)
           scan     == Scan(clusters, x)
           scanned  == [i \in DOMAIN clusters |-> scan[i].cluster]
           added_to == AddedTo(scan, Len(clusters))
       IN  /\ stream' = Tail(stream)
           /\ IF Len(added_to) > 1
              THEN /\ clusters' = MergeAll(scanned, added_to, x, 2)
                   /\ cluster_tx' = cluster_tx
              ELSE IF added_to = <<>>
              THEN IF Len(clusters) = lookback_size
                   THEN /\ cluster_tx' = Append(cluster_tx, Head(scanned))
                        /\ clusters' = Append(Tail(scanned), ClusterNew(x))
                   ELSE /\ cluster_tx' = cluster_tx
                        /\ clusters' = Append(scanned, ClusterNew(x))
              ELSE /\ clusters' = scanned
                   /\ cluster_tx' = cluster_tx
           /\ trail' = [trail EXCEPT
                 !.streamed = Append(@, x),
                 !.enclosed = IF \E i \in DOMAIN scan : scan[i].enclosed THEN @ \cup {x} ELSE @,
                 !.absorbed = IF Len(added_to) > 1
                              THEN @ \cup UNION {ConsumedValues(scanned[added_to[n]]) :
                                                    n \in 2..Len(added_to)}
                              ELSE @,
                 !.created = IF added_to = <<>> THEN @ + 1 ELSE @,
                 !.merged = IF Len(added_to) > 1 THEN @ + Len(added_to) - 1 ELSE @]
    /\ UNCHANGED <<dbVars, eng, hist, geoVars, locVars, codecVars, ack, lookback_size>>

\* "for cluster in clusters": at the end of the stream the window is sent
Finish ==
    /\ stream = <<>>
    /\ ~trail.returned
    /\ cluster_tx' = cluster_tx \o clusters
    /\ clusters' = <<>>
    /\ trail' = [trail EXCEPT !.returned = TRUE]
    /\ UNCHANGED <<dbVars, eng, hist, geoVars, locVars, codecVars, ack, stream, lookback_size>>

MaxLookback == 3
MaxStream == 4

\* args.lookback_size
Lookbacks == 1..MaxLookback

\* the cells of a map in the order of their index: a cell far from the
\* others, a hexagon's centre after three of its ring and before the other
\* three, then three cells beyond
CellsByIndex ==
    <<<<-4, 0>>, <<1, 0>>, <<0, 1>>, <<-1, 1>>, <<0, 0>>, <<-1, 0>>, <<0, -1>>, <<1, -1>>,
      <<3, -1>>, <<2, 1>>, <<2, 0>>>>

\* the same cells with the centre after the whole ring
CellsRingFirst ==
    <<<<-4, 0>>, <<1, 0>>, <<0, 1>>, <<-1, 1>>, <<-1, 0>>, <<0, -1>>, <<1, -1>>, <<0, 0>>,
      <<3, -1>>, <<2, 1>>, <<2, 0>>>>

\* the cells of the streams that come in any order
Patch == {<<0, 0>>, <<1, 0>>, <<3, -1>>, <<2, 1>>, <<2, 0>>}

RECURSIVE Selected(_, _, _)
\* the cells of an ordered map whose position is in the set, in order
Selected(cells, positions, i) ==
    IF i > Len(cells) THEN <<>>
    ELSE IF i \in positions THEN <<cells[i]>> \o Selected(cells, positions, i + 1)
    ELSE Selected(cells, positions, i + 1)

\* "select h3 from map order by h3" over every map made of these cells, and
\* every short stream of distinct cells in any order
Streams ==
    {Selected(cells, positions, 1) :
        cells \in {CellsByIndex, CellsRingFirst}, positions \in SUBSET (1..Len(CellsByIndex))}
    \cup {s \in SeqsUpTo(Patch, MaxStream) : \A i, j \in DOMAIN s : i # j => s[i] # s[j]}

\* process called on a stream with a lookback size
InitMap ==
    /\ EngineIdle
    /\ GeoIdle
    /\ ServicesIdle
    /\ CodecIdle
    /\ stream \in Streams
    /\ lookback_size \in Lookbacks
    /\ clusters = <<>>
    /\ cluster_tx = <<>>
    /\ trail = [streamed |-> <<>>, enclosed |-> {}, absorbed |-> {}, created |-> 0,
                merged |-> 0, returned |-> FALSE]

NextMap == ProcessCell \/ Finish

SpecMap == InitMap /\ [][NextMap]_vars


(***************************************************************************)
(* One engine against a table of pending reports: no intake beside it, no  *)
(* store failure. The run is a sequential loop, so a step that can be      *)
(* taken is taken: weak fairness on its steps.                             *)
(***************************************************************************)
MaxPending == 3

DrainPayloads == {RawWifiA, RawWifiB, RawBadMac, RawInaccurate}

\* the row of a report that was taken in and is pending
PendingRow(raw) ==
    [timestamp |-> raw.timestamp, latitude |-> raw.position.latitude,
     longitude |-> raw.position.longitude, user_agent |-> None, raw |-> raw,
     processed_at |-> FALSE, processing_error |-> None]

InitDrain ==
    /\ \E items \in SeqsUpTo(DrainPayloads, MaxPending) :
          report = [id \in DOMAIN items |-> PendingRow(items[id])]
    /\ cell = EmptyFn
    /\ wifi = EmptyFn
    /\ bluetooth = EmptyFn
    /\ map = {}
    /\ eng = [e \in Engines |-> Idle]
    /\ hist = [settled |-> None, rerun |-> FALSE, drained |-> EmptyFn]
    /\ GeoIdle
    /\ ServicesIdle
    /\ CodecIdle
    /\ MapIdle

\* the steps of a run once it is launched, store failures apart
RunToEnd(e) ==
    \/ Fetch(e)
    \/ Mark(e)
    \/ SetError(e)
    \/ Observe(e)
    \/ Upsert(e)
    \/ Tile(e)
    \/ Commit(e)

NextDrain ==
    \/ Start(1)
    \/ RunToEnd(1)

SpecDrain == InitDrain /\ [][NextDrain]_vars /\ WF_vars(RunToEnd(1))

(***************************************************************************)
(* The codec on its own: one report is decoded as process.rs decodes it,   *)
(* extract and then the position each kept observation is credited at;     *)
(* beside it, what the Wi-Fi filters of the older engine and of the        *)
(* importers make of the same access points.                               *)
(***************************************************************************)
PositionAges == {None, Some(0), Some(1000), Some(31000)}
Speeds == {None, Some(R(0)), Some(R(4)), Some(R(10))}
Headings == {None, Some(R(0)), Some(R(180))}
ObservationAges == {None, Some(0), Some(1000), Some(31000), Some(31001)}

Ssids ==
    {None, Some(<<>>), Some(<<"NUL">>), Some(<<"NUL", "NUL">>),
     Some(<<"h", "o", "m", "e">>), Some(<<" ", "h", "NUL", "o", " ">>),
     Some(<<"h">> \o NoMap), Some(<<"h">> \o OptOut), Some(NoMap \o <<"e">>),
     Some(<<"_", "n", "o", "NUL", "m", "a", "p">>), Some(<<"_", "N", "O", "M", "A", "P">>)}

Asus == {None, Some(15), Some(32), Some(35), Some(99), Some(32767), Some(-32768)}

CodecPositions ==
    {[Position(2, 2, None) EXCEPT !.age = a, !.speed = s, !.heading = h] :
        a \in PositionAges, s \in Speeds, h \in Headings}

CodecCells ==
    {[radioType |-> r, mobileCountryCode |-> 208, mobileNetworkCode |-> 10,
      locationAreaCode |-> Some(1234), cellId |-> Some(56789),
      primaryScramblingCode |-> Some(1), age |-> a, signalStrength |-> g, asu |-> u] :
        r \in {"gsm", "wcdma", "lte", "nr"}, a \in {None, Some(1000), Some(31001)},
        g \in {None, Some(-100)}, u \in Asus}

CodecWifis ==
    {[macAddress |-> 1, ssid |-> n, age |-> a, signalStrength |-> Some(-60)] :
        n \in Ssids, a \in ObservationAges}

CodecBeacons ==
    {[macAddress |-> 2, age |-> a, signalStrength |-> Some(-60)] : a \in ObservationAges}

\* reports with one observation, and reports with one of each kind
CodecDocs ==
    {Raw(1, p, <<c>>, <<>>, <<>>) :
        p \in {x \in CodecPositions : x.heading = None}, c \in CodecCells}
    \cup {Raw(1, p, <<>>, <<w>>, <<>>) : p \in CodecPositions, w \in CodecWifis}
    \cup {Raw(1, p, <<>>, <<>>, <<b>>) : p \in CodecPositions, b \in CodecBeacons}
    \cup {Raw(1, [Position(2, 2, None) EXCEPT !.age = Some(1000)], <<c>>, <<w>>, <<b>>) :
            c \in {x \in CodecCells : x.asu = Some(15) /\ x.signalStrength = None},
            w \in {x \in CodecWifis : x.age = None},
            b \in {x \in CodecBeacons : x.age = Some(31001)}}

\* a kept cell whose ASU conversion leaves the i16 range
Overflows(raw) ==
    /\ WellTyped(raw)
    /\ \E i \in DOMAIN raw.cellTowers :
          /\ CellKept(raw.position, raw.cellTowers[i])
          /\ signal_strength_overflows(raw.cellTowers[i])

\* the report is decoded; checked tells whether the build checks integer
\* overflow (then an overflow panics) or wraps
Extract(raw, checked) ==
    /\ doc = None
    /\ doc' = Some(raw)
    /\ out' = Some(
            IF checked /\ Overflows(raw) THEN [panicked |-> TRUE]
            ELSE LET e == extract(raw)
                 IN  IF IsSome(e.err) THEN [panicked |-> FALSE, err |-> e.err]
                     ELSE [panicked |-> FALSE, err |-> None, pos |-> e.pos, txs |-> e.txs,
                           at |-> [j \in DOMAIN e.txs |-> transmitter_scan_pos(e.pos, e.txs[j])],
                           legacy |-> [i \in DOMAIN raw.wifiAccessPoints |->
                                          LegacyWifiKept(raw.wifiAccessPoints[i])],
                           ssids |-> [i \in DOMAIN raw.wifiAccessPoints |->
                                          normalize_ssid(raw.wifiAccessPoints[i].ssid)]])
    /\ UNCHANGED <<dbVars, eng, hist, geoVars, locVars, ack, mapVars>>

\* the result has been taken
Extracted ==
    /\ doc # None
    /\ doc' = None
    /\ out' = None
    /\ UNCHANGED <<dbVars, eng, hist, geoVars, locVars, ack, mapVars>>

NextCodec ==
    \/ (doc = None /\ \E raw \in CodecDocs, checked \in BOOLEAN : Extract(raw, checked))
    \/ Extracted

SpecCodec == Init /\ [][NextCodec]_vars

\* the responder serving requests against a populated store
InitLocate ==
    /\ CodecIdle
    /\ MapIdle
    /\ report = <<>>
    /\ map = {}
    /\ eng = [e \in Engines |-> Idle]
    /\ hist = [settled |-> None, rerun |-> FALSE, drained |-> EmptyFn]
    /\ GeoIdle
    /\ \E s \in LocateStores :
          /\ wifi = s.wifi
          /\ cell = s.cell
          /\ mls_cell = s.mls_cell
          /\ geoip = s.geoip
    /\ bluetooth = EmptyFn
    /\ request = None
    /\ response = None
    /\ ack = None

\* the answer has been sent
Answered ==
    /\ request # None
    /\ request' = None
    /\ response' = None
    /\ UNCHANGED <<dbVars, eng, hist, geoVars, mls_cell, geoip, ack, codecVars, mapVars>>

NextLocate ==
    \/ \E req \in Requests : Geolocate(req)
    \/ Answered

SpecLocate == InitLocate /\ [][NextLocate]_vars

(***************************************************************************)
(* Properties                                                              *)
(***************************************************************************)
Rows == {cell[k] : k \in DOMAIN cell} \cup {wifi[m] : m \in DOMAIN wifi}
            \cup {bluetooth[m] : m \in DOMAIN bluetooth}

Quiescent == \A e \in Engines : ~InTx(e)

RECURSIVE SumWeights(_, _, _)
\* the weights a report's kept observations of transmitter k carry
SumWeights(pos, txs, k) ==
    IF txs = <<>> THEN R(0)
    ELSE RAdd(IF Ident(Head(txs)) = k THEN Credit(pos, Head(txs)).weight ELSE R(0),
              SumWeights(pos, Tail(txs), k))

\* the reports that left pending with their observations credited
Credited == {id \in DOMAIN report :
                report[id].processed_at /\ load(report[id].raw).some}

RECURSIVE ExpectedWeight(_, _)
\* the weight of transmitter k in the reports ids, each report counted once
ExpectedWeight(ids, k) ==
    IF ids = {} THEN R(0)
    ELSE LET id == CHOOSE i \in ids : TRUE
             l == load(report[id].raw)
         IN  RAdd(SumWeights(l.pos, l.txs, k), ExpectedWeight(ids \ {id}, k))

\* the transmitters observed in the credited reports
Observed ==
    UNION {{Ident(load(report[id].raw).txs[j]) : j \in DOMAIN load(report[id].raw).txs} :
              id \in Credited}

\* the row the tables hold for transmitter k, in the table of its own kind
RowOf(k) ==
    CASE k[1] = "Wifi" -> IF k[2][1] \in DOMAIN wifi THEN Some(wifi[k[2][1]]) ELSE None
      [] k[1] = "Bluetooth" ->
            IF k[2][1] \in DOMAIN bluetooth THEN Some(bluetooth[k[2][1]]) ELSE None
      [] k[1] = "Cell" ->
            LET key == [radio |-> k[2][1], country |-> k[2][2], network |-> k[2][3],
                        area |-> k[2][4], cell |-> k[2][5], unit |-> k[2][6]]
            IN  IF key \in DOMAIN cell THEN Some(cell[key]) ELSE None

\* C1: a run that finds nothing pending, after a run that drained everything and
\* with no report submitted in between, leaves the report table, the transmitter
\* tables and the map as they were; and no report is part of two committed batches.
C1_EngineIdempotent ==
    /\ IsSome(hist.settled) => Store = Unwrap(hist.settled)
    /\ \A id \in DOMAIN hist.drained : hist.drained[id] <= 1

\* a second run has ended after a run that credited an access point
C1_Witness ==
    /\ hist.rerun
    /\ eng[1].pc = "done"
    /\ DOMAIN wifi # {}
    /\ \E id \in DOMAIN report : report[id].processed_at

\* C2: with two engine runs against the same database no report's observations
\* are credited by two committed batches, and once both runs are out of their
\* transactions every access point's total_weight is the sum of the weights of
\* the credited reports' observations, each report counted once.
C2_ConcurrentRunsCreditOnce ==
    /\ \A id \in Credited \cap DOMAIN hist.drained : hist.drained[id] <= 1
    /\ Quiescent =>
          \A m \in DOMAIN wifi :
              wifi[m].total_weight = ExpectedWeight(Credited, <<"Wifi", <<m>>>>)

\* the batch of a run neither committed nor started over: in flight or failed
OpenOrFailed(e) == InTx(e) \/ (eng[e].pc = "failed" /\ IsSome(eng[e].snap))

\* C3: while a batch is in flight, and after a store operation failed in it, the
\* transmitter tables and the map are as they were when the batch began (earlier
\* batches included), and every report the batch fetched is still pending, its
\* row unchanged.
C3_FailedBatchHasNoEffect ==
    OpenOrFailed(1) =>
        LET snap == Unwrap(eng[1].snap)
        IN  /\ cell = snap.cell
            /\ wifi = snap.wifi
            /\ bluetooth = snap.bluetooth
            /\ map = snap.map
            /\ \A j \in DOMAIN eng[1].reports :
                  /\ ~report[eng[1].reports[j]].processed_at
                  /\ report[eng[1].reports[j]] = snap.report[eng[1].reports[j]]

\* the commit of the second batch of a run failed, after its upserts
C3_Witness ==
    /\ eng[1].pc = "failed"
    /\ eng[1].failedAt = "commit"
    /\ eng[1].committed >= 1
    /\ DOMAIN wifi # {}
    /\ \E j \in DOMAIN eng[1].reports :
          load(report[eng[1].reports[j]].raw).some

\* the report the engine is at
Current(e) == eng[e].reports[eng[e].i]

\* C4: a report that fails to parse gets its error recorded in the batch's
\* transaction and leaves pending with it at the commit; recording it changes
\* neither the estimates accumulated for the batch nor its tiles, and the engine
\* goes on to the next report or to the flush.
C4_ParseFailureIsLocal ==
    /\ [](\A id \in DOMAIN report :
            /\ (report[id].processed_at /\ IsSome(load(report[id].raw).err))
                    => report[id].processing_error = load(report[id].raw).err
            /\ IsSome(report[id].processing_error) => report[id].processed_at)
    /\ [][(eng[1].pc = "mark" /\ eng'[1] # eng[1] /\ eng'[1].pc # "failed"
                /\ IsSome(load(report[Current(1)].raw).err))
            => /\ eng'[1].pc = "seterror"
               /\ eng'[1].modified = eng[1].modified
               /\ eng'[1].h3s = eng[1].h3s]_vars
    /\ [][(eng[1].pc = "seterror" /\ eng'[1] # eng[1] /\ eng'[1].pc # "failed")
            => /\ eng'[1].pc \in {"mark", "upsert", "tile", "commit"}
               /\ eng'[1].marks[Current(1)].processing_error
                        = load(report[Current(1)].raw).err
               /\ eng'[1].modified = eng[1].modified
               /\ eng'[1].h3s = eng[1].h3s]_vars

\* one batch of two reports committed: one errored, the other credited
C4_Witness ==
    /\ eng[1].pc = "fetch"
    /\ eng[1].committed = 1
    /\ Len(report) = 2
    /\ \A id \in DOMAIN report : report[id].processed_at
    /\ \E id \in DOMAIN report : IsSome(report[id].processing_error)
    /\ DOMAIN wifi # {}

\* C5: every transmitter observed in the credited reports has a row whose
\* total_weight is the sum of the weights of all its kept observations.
C5_TotalWeightIsSumOfObservations ==
    \A k \in Observed :
        /\ IsSome(RowOf(k))
        /\ Unwrap(RowOf(k)).total_weight = ExpectedWeight(Credited, k)

\* C6: the engine's lookup of a key returns the row committed for that key in the
\* table of its kind, and nothing when that table holds no such row.
C6_LookupReturnsOwnKind ==
    \A x \in UNION {{load(raw).txs[j] : j \in DOMAIN load(raw).txs} :
                        raw \in {p \in Payloads : load(p).some}} :
        Lookup(x, cell, wifi, bluetooth) = RowOf(Ident(x))

C8_PositiveWeightAndAccuracy ==
    \A b \in Rows : RLt(R(0), b.total_weight) /\ RLe(R(0), b.accuracy)

RECURSIVE SumW(_)
SumW(os) == IF os = <<>> THEN R(0) ELSE RAdd(Head(os).weight, SumW(Tail(os)))

RECURSIVE SumXW(_, _)
\* the weighted sum of field f of the observations
SumXW(os, f) ==
    IF os = <<>> THEN R(0)
    ELSE RAdd(RMul(Head(os)[f], Head(os).weight), SumXW(Tail(os), f))

\* C9: an estimate created from the first observation and updated with each
\* following one has total_weight = the sum of the weights and, for lat, lon and
\* accuracy, the weighted mean of all the observations.
C9_IncrementalEqualsBatchMean ==
    obs # <<>> =>
        /\ wab.total_weight = SumW(obs)
        /\ wab.lat = RDiv(SumXW(obs, "lat"), SumW(obs))
        /\ wab.lon = RDiv(SumXW(obs, "lon"), SumW(obs))
        /\ wab.accuracy = RDiv(SumXW(obs, "accuracy"), SumW(obs))

\* three observations at three places with three weights
C9_Witness ==
    /\ Len(obs) = 3
    /\ Cardinality({obs[i].lat : i \in DOMAIN obs}) = 3
    /\ Cardinality({obs[i].weight : i \in DOMAIN obs}) = 3

\* C10: every point and every box added to a bounding box lies inside it.
C10_AddedLiesInside ==
    /\ \A a \in added :
          /\ RLe(legacy.min[1], a.min[1]) /\ RLe(a.max[1], legacy.max[1])
          /\ RLe(legacy.min[2], a.min[2]) /\ RLe(a.max[2], legacy.max[2])
    /\ \A p \in points :
          /\ RLe(bnd.min_lat, p[1]) /\ RLe(p[1], bnd.max_lat)
          /\ RLe(bnd.min_lon, p[2]) /\ RLe(p[2], bnd.max_lon)

\* the state of a report row: pending, processed or errored
StateOf(row) ==
    IF ~row.processed_at THEN "pending"
    ELSE IF IsSome(row.processing_error) THEN "errored" ELSE "processed"

\* C11: report state transitions are write-once: a row is never removed, a row
\* that left pending (to processed or to errored) is never changed again by a
\* later batch, run or submission, and a pending row changes only by leaving
\* pending, its key and payload kept.
C11_ReportStateWriteOnce ==
    [][\A id \in DOMAIN report :
          /\ id \in DOMAIN report'
          /\ StateOf(report[id]) # "pending" => report'[id] = report[id]
          /\ (StateOf(report[id]) = "pending" /\ report'[id] # report[id]) =>
                /\ StateOf(report'[id]) \in {"processed", "errored"}
                /\ report'[id].raw = report[id].raw
                /\ report'[id].timestamp = report[id].timestamp]_vars

\* a later run has ended with one report processed and one errored
C11_Witness ==
    /\ hist.rerun
    /\ eng[1].pc = "done"
    /\ \E id \in DOMAIN report : StateOf(report[id]) = "processed"
    /\ \E id \in DOMAIN report : StateOf(report[id]) = "errored"

\* C12: after every committed batch the map holds the tile of the position of
\* every report in state processed, and no other tile.
C12_MapIsTilesOfProcessed ==
    ~InTx(1) =>
        map = {H3Cell(report[id].raw.position) :
                  id \in {i \in DOMAIN report : StateOf(report[i]) = "processed"}}

\* the request being answered, as deserialized (the empty request for no body)
Data ==
    LET json == JsonLocationRequest(Unwrap(request).body)
    IN  IF json.ok THEN json.data ELSE LocationRequestDefault

\* the request was accepted: it deserialized or had Content-Length 0
Accepted ==
    /\ IsSome(response)
    /\ Unwrap(response).at # "malformed"

\* centre-to-corner distance of a row's bounding box, in metres
Radius(row) ==
    RMul(R(MetresPerDegree), RDiv(RSub(row.max_lat, row.min_lat), R(2)))

\* the submitted MACs that have a row with 1 <= r <= 500
Qualifying ==
    {mac \in {Data.wifi_access_points[i].macAddress : i \in DOMAIN Data.wifi_access_points} :
        /\ mac \in DOMAIN wifi
        /\ RLe(R(1), Radius(wifi[mac]))
        /\ RLe(Radius(wifi[mac]), R(500))}

\* the submitted towers with a row in the table of keys
Known(keys) ==
    {i \in DOMAIN Data.cell_towers : CellMatches(Data.cell_towers[i], keys) # {}}

\* C13: the answer comes from the first branch that matches, in the order Wi-Fi,
\* cell table, MLS table, IP fallback, not found; a later branch is used only
\* when no earlier branch matches for any submitted item, so the MLS table
\* answers only when no submitted cell is in the cell table.
C13_FirstMatchingBranchWins ==
    Accepted =>
        LET at == Unwrap(response).at
        IN  /\ Cardinality(Qualifying) >= 2 => at = "wifi"
            /\ (Cardinality(Qualifying) < 2 /\ Known(DOMAIN cell) # {}) => at = "cell"
            /\ (Cardinality(Qualifying) < 2 /\ Known(DOMAIN cell) = {}
                    /\ Known(DOMAIN mls_cell) # {}) => at = "mls"
            /\ (Cardinality(Qualifying) < 2 /\ Known(DOMAIN cell) = {}
                    /\ Known(DOMAIN mls_cell) = {}) => at \in {"ipf", "notFound", "noClientIp"}

\* C14: an answer of the Wi-Fi, cell or MLS branch has an accuracy of at least
\* 50 m.
C14_AccuracyAtLeast50 ==
    (IsSome(response) /\ Unwrap(response).at \in {"wifi", "cell", "mls"}) =>
        Unwrap(Unwrap(response).accuracy) >= 50

\* the request is a JSON document that deserialized
Parsed == IsSome(request) /\ JsonLocationRequest(Unwrap(request).body).ok

\* the request being answered with another list of access points
WithAps(aps) ==
    [Unwrap(request) EXCEPT !.body.value.wifiAccessPoints = Some(aps)]

\* the answer the responder gives to a request, from the tables as they are
Answer(req) == service(req, wifi, cell, mls_cell, geoip)

\* the listed access points that qualify
QualifyingAps ==
    SelectSeq(Data.wifi_access_points, LAMBDA x : x.macAddress \in Qualifying)

FillSignal(aps) ==
    [i \in DOMAIN aps |->
        IF aps[i].signalStrength = None
        THEN [aps[i] EXCEPT !.signalStrength = Some(-90)] ELSE aps[i]]

\* C16: an access point submitted without a signal strength is weighted as if
\* its signal strength were -90 dBm: the answer is that of the same request with
\* -90 filled in.
C16_MissingSignalIsMinus90 ==
    Parsed => Unwrap(response) = Answer(WithAps(FillSignal(Data.wifi_access_points)))

\* the first occurrence of every MAC of the list, in order
FirstOccurrences(aps) ==
    LET keep == {i \in DOMAIN aps :
                    \A j \in 1 .. (i - 1) : aps[j].macAddress # aps[i].macAddress}
        F[i \in 0 .. Len(aps)] ==
            IF i = 0 THEN <<>>
            ELSE IF i \in keep THEN Append(F[i - 1], aps[i]) ELSE F[i - 1]
    IN  F[Len(aps)]

SignalStrengths == {None, Some(-90), Some(-60), Some(-30), Some(0)}

\* C17: listing an already listed MAC once more, with any signal strength,
\* leaves the answer unchanged, and the answer is that of the request with each
\* MAC listed once (its first occurrence).
C17_RepeatedMacChangesNothing ==
    Parsed =>
        LET aps == Data.wifi_access_points
        IN  /\ \A i \in DOMAIN aps, s \in SignalStrengths :
                  Answer(WithAps(Append(aps, AccessPoint(aps[i].macAddress, s))))
                      = Unwrap(response)
            /\ Answer(WithAps(FirstOccurrences(aps))) = Unwrap(response)

\* the Wi-Fi branch answered a request that lists a qualifying MAC twice, with
\* two signal strengths
C17_Witness ==
    /\ Parsed
    /\ Unwrap(response).at = "wifi"
    /\ \E i, j \in DOMAIN Data.wifi_access_points :
          /\ i < j
          /\ Data.wifi_access_points[i].macAddress = Data.wifi_access_points[j].macAddress
          /\ Data.wifi_access_points[i].signalStrength # Data.wifi_access_points[j].signalStrength
          /\ Data.wifi_access_points[i].macAddress \in Qualifying

\* no Wi-Fi or cell branch matches the request being answered
NoBranchMatched ==
    /\ Cardinality(Qualifying) < 2
    /\ Known(DOMAIN cell) = {}
    /\ Known(DOMAIN mls_cell) = {}

\* the request switches the IP fallback off
IpSwitchedOff ==
    \/ Data.consider_ip = Some(FALSE)
    \/ (IsSome(Data.fallbacks) /\ Unwrap(Data.fallbacks).ipf = Some(FALSE))

\* C18: the client address is read and the geoip table consulted, and an answer
\* marked fallback "ipf" given, only when no Wi-Fi or cell branch matched and
\* neither consider_ip nor fallbacks.ipf is false (absent counts as true); when
\* one of them is false and no branch matched the answer is not-found whatever
\* the client address is, and when none is false the table decides.
C18_IpFallbackOnlyWhenAllowed ==
    Accepted =>
        LET r == Unwrap(response)
        IN  /\ (r.at \in {"ipf", "noClientIp"} \/ r.fallback = Some("ipf")) =>
                    (NoBranchMatched /\ ~IpSwitchedOff)
            /\ (NoBranchMatched /\ IpSwitchedOff) => r = NotFound
            /\ (NoBranchMatched /\ ~IpSwitchedOff) =>
                    r.at = IF ClientIp(Unwrap(request).xff) = None THEN "noClientIp"
                           ELSE IF Unwrap(Unwrap(request).xff) \in DOMAIN geoip THEN "ipf"
                           ELSE "notFound"

\* the fallback answered a request that names fallbacks but neither switch
C18_Witness ==
    /\ Parsed
    /\ Unwrap(response).fallback = Some("ipf")
    /\ Unwrap(response).accuracy = Some(25000)
    /\ Data.consider_ip = None
    /\ Data.fallbacks = Some([ipf |-> None])

\* C19: a request whose body is {} is answered 404 not-found, never 400, and a
\* request with no body is answered the same way.
C19_EmptyBodyIsNotFound ==
    (IsSome(request) /\ Unwrap(request).body \in {EmptyObject, [kind |-> "empty"]}) =>
        Unwrap(response).status = 404

\* the dedup key of a stored row
KeyOfRow(row) == <<row.timestamp, row.latitude, row.longitude, row.user_agent>>

NullIsland(position) ==
    /\ RLe(RAbs(position.latitude), R(1))
    /\ RLe(RAbs(position.longitude), R(1))

\* C21: a report with |latitude| <= 1 and |longitude| <= 1 is dropped at
\* intake: no row for it is ever stored.
C21_NullIslandDropped ==
    \A id \in DOMAIN report : ~NullIsland(report[id].raw.position)

\* a position the report-level rules ignore: accuracy above 250 m or altitude
\* above 5000 m
Ignorable(position) ==
    \/ (IsSome(position.accuracy) /\ RLt(R(250), Unwrap(position.accuracy)))
    \/ (IsSome(position.altitude) /\ RLt(R(5000), Unwrap(position.altitude)))

\* the transmitters whose row a step creates or changes
ChangedKeys ==
    {<<"Wifi", <<m>>>> : m \in {n \in DOMAIN wifi' : n \notin DOMAIN wifi \/ wifi'[n] # wifi[n]}}
    \cup {<<"Bluetooth", <<m>>>> :
            m \in {n \in DOMAIN bluetooth' :
                      n \notin DOMAIN bluetooth \/ bluetooth'[n] # bluetooth[n]}}
    \cup {<<"Cell", <<k.radio, k.country, k.network, k.area, k.cell, k.unit>>>> :
            k \in {n \in DOMAIN cell' : n \notin DOMAIN cell \/ cell'[n] # cell[n]}}

\* the transmitters the codec extracts from the reports of engine e's batch
\* that are not ignorable
BatchTransmitters(e) ==
    UNION {LET x == extract(report[eng[e].reports[i]].raw)
           IN  IF IsSome(x.err) \/ Ignorable(report[eng[e].reports[i]].raw.position)
               THEN {}
               ELSE {Ident(x.txs[j]) : j \in DOMAIN x.txs} :
              i \in DOMAIN eng[e].reports}

Doc == Unwrap(doc)
Out == Unwrap(out)
Decoded == IsSome(out) /\ ~Out.panicked /\ ~IsSome(Out.err)

\* the cell passes the rules of the codec that are not about ages
CellValid(c) ==
    /\ c.mobileCountryCode # 0
    /\ UnwrapOr(c.locationAreaCode, 0) # 0
    /\ UnwrapOr(c.cellId, 0) # 0
    /\ IsSome(c.primaryScramblingCode)

\* the observations of each kind the codec returned
TxsOf(kind) == SelectSeq(Out.txs, LAMBDA x : x.kind = kind)

\* the age rule of the claim: both ages known and more than 30 s apart
TooOld(position, age) ==
    /\ IsSome(position.age)
    /\ IsSome(age)
    /\ Abs(Unwrap(position.age) - Unwrap(age)) > 30000

\* either age unknown
AgeUnknown(position, age) == ~IsSome(position.age) \/ ~IsSome(age)

\* C23: an observation of any kind whose age and the position's age are both
\* present and more than 30 000 ms apart is dropped; an observation with
\* either age absent is dropped by no age rule: it is returned exactly when
\* the other rules of its kind keep it.
C23_AgeRule ==
    Decoded =>
        /\ \A i \in DOMAIN Doc.cellTowers :
              LET c == Doc.cellTowers[i]
              IN  /\ TooOld(Doc.position, c.age) => TxsOf("Cell") = <<>>
                  /\ (AgeUnknown(Doc.position, c.age) /\ CellValid(c)) =>
                        TxsOf("Cell") = <<CellTransmitter(c)>>
        /\ \A i \in DOMAIN Doc.wifiAccessPoints :
              LET w == Doc.wifiAccessPoints[i]
              IN  /\ TooOld(Doc.position, w.age) => TxsOf("Wifi") = <<>>
                  /\ AgeUnknown(Doc.position, w.age) =>
                        (TxsOf("Wifi") = <<WifiTransmitter(w)>>
                            <=> WifiKept([Doc.position EXCEPT !.age = None], w))
        /\ \A i \in DOMAIN Doc.bluetoothBeacons :
              LET b == Doc.bluetoothBeacons[i]
              IN  /\ TooOld(Doc.position, b.age) => TxsOf("Bluetooth") = <<>>
                  /\ AgeUnknown(Doc.position, b.age) =>
                        TxsOf("Bluetooth") = <<BluetoothTransmitter(b)>>

\* a beacon seen 31 s before the fix of a reporter moving at 10 m/s was dropped
C23_Witness ==
    /\ Decoded
    /\ Doc.position.age = Some(0)
    /\ Doc.position.speed = Some(R(10))
    /\ Len(Doc.bluetoothBeacons) = 1
    /\ Doc.bluetoothBeacons[1].age = Some(31000)
    /\ Out.txs = <<>>

\* str::ends_with
EndsWith(s, suffix) ==
    Len(s) >= Len(suffix) /\ SubSeq(s, Len(s) - Len(suffix) + 1, Len(s)) = suffix

\* the SSID, once its NUL bytes are stripped, ends with _nomap or _optout
OptedOut(w) ==
    /\ IsSome(w.ssid)
    /\ \/ EndsWith(StripNul(Unwrap(w.ssid)), NoMap)
       \/ EndsWith(StripNul(Unwrap(w.ssid)), OptOut)

\* C24: a Wi-Fi observation whose SSID, after NUL bytes are stripped, ends
\* with _nomap or _optout is dropped: the codec returns no observation for it,
\* and neither the older engine nor the importers record it.
C24_OptOutDropped ==
    Decoded =>
        \A i \in DOMAIN Doc.wifiAccessPoints :
            OptedOut(Doc.wifiAccessPoints[i]) =>
                /\ TxsOf("Wifi") = <<>>
                /\ ~Out.legacy[i]
                /\ Out.ssids[i] = None

\* the SSID is present and empty once its NUL bytes are stripped
EmptySsid(w) == IsSome(w.ssid) /\ StripNul(Unwrap(w.ssid)) = <<>>

ExpectedSignal(c) ==
    IF IsSome(c.signalStrength) THEN c.signalStrength
    ELSE IF c.asu = None \/ c.asu = Some(99) THEN None
    ELSE CASE c.radioType = "gsm"   -> Some((2 * Unwrap(c.asu)) - 113)
           [] c.radioType = "wcdma" -> Some(Unwrap(c.asu) - 120)
           [] c.radioType = "lte"   -> Some(Unwrap(c.asu) - 140)
           [] c.radioType = "nr"    -> Some(Unwrap(c.asu) - 140)

\* C26: the signal of a cell is its signal_strength when present, whatever asu
\* is; else none when asu is absent or 99; else exactly 2 asu - 113 for gsm,
\* asu - 120 for wcdma and asu - 140 for lte and nr, for every 16-bit asu, with
\* no overflow (the decoding does not panic) and no wrap-around.
C26_SignalExtraction ==
    IsSome(out) =>
        /\ ~Out.panicked
        /\ ~IsSome(Out.err) =>
              \A i \in DOMAIN Doc.cellTowers :
                  CellKept(Doc.position, Doc.cellTowers[i]) =>
                      /\ Len(TxsOf("Cell")) = 1
                      /\ TxsOf("Cell")[1].signal_strength = ExpectedSignal(Doc.cellTowers[i])

\* speed, both ages and the heading are known
DeadReckoned(pos, x) ==
    IsSome(pos.speed) /\ IsSome(x.age) /\ IsSome(pos.age) /\ IsSome(pos.heading)

\* the report position moved by -speed (age_obs - age_pos) / 1000 metres along
\* the heading, for a heading along the meridian
Displaced(pos, x) ==
    LET metres == RNeg(RDiv(RMul(Unwrap(pos.speed), R(Unwrap(x.age) - Unwrap(pos.age))),
                            R(1000)))
        degrees == RDiv(metres, R(MetresPerDegree))
    IN  CASE pos.heading = Some(R(0))   -> <<RAdd(pos.latitude, degrees), pos.longitude>>
          [] pos.heading = Some(R(180)) -> <<RSub(pos.latitude, degrees), pos.longitude>>

\* C28: with speed, observation age, position age and heading all present, the
\* observation is credited at the report position displaced along the heading
\* by -speed (age_obs - age_pos) / 1000 metres: heading north with speed > 0
\* and age_obs > age_pos, at a strictly smaller latitude and the same longitude;
\* with any of the four absent, at the report position.
C28_ReverseDeadReckoning ==
    Decoded =>
        \A j \in DOMAIN Out.txs :
            LET x == Out.txs[j]
                pos == Out.pos
            IN  /\ ~DeadReckoned(pos, x) => Out.at[j] = <<pos.latitude, pos.longitude>>
                /\ DeadReckoned(pos, x) => Out.at[j] = Displaced(pos, x)
                /\ (/\ DeadReckoned(pos, x)
                    /\ pos.heading = Some(R(0))
                    /\ RLt(R(0), Unwrap(pos.speed))
                    /\ Unwrap(x.age) > Unwrap(pos.age)) =>
                        /\ RLt(Out.at[j][1], pos.latitude)
                        /\ Out.at[j][2] = pos.longitude

\* the reports still pending, in ascending id order
Pending == PendingFrom(report, 1)

\* C27: with no intake beside it and no store failure, an engine run
\* terminates: a launched run ends, each commit of the loop marks every report
\* of its batch, which is the first 10000 (here BatchLimit) pending reports in
\* ascending id order, and touches no other report; and when the run has
\* returned no report is pending.
C27_RunDrainsAndTerminates ==
    /\ [][eng[1].pc = "commit" /\ eng'[1].pc = "fetch" =>
            /\ eng[1].reports # <<>>
            /\ eng[1].reports = SubSeq(Pending, 1, Len(eng[1].reports))
            /\ Len(eng[1].reports) = BatchLimit \/ eng[1].reports = Pending
            /\ \A i \in DOMAIN eng[1].reports : report'[eng[1].reports[i]].processed_at
            /\ \A id \in DOMAIN report :
                  (\A i \in DOMAIN eng[1].reports : eng[1].reports[i] # id) =>
                      report'[id] = report[id]]_vars
    /\ [](eng[1].pc = "done" => Pending = <<>>)
    /\ (eng[1].pc = "fetch" ~> eng[1].pc = "done")

\* three reports were pending, one of them unparsable; the run took two
\* iterations and returned with none pending
C27_Witness ==
    /\ Len(report) = 3
    /\ report[2].raw = RawBadMac
    /\ eng[1].pc = "done"
    /\ eng[1].committed = 2
    /\ \A id \in DOMAIN report : report[id].processed_at

(***************************************************************************)
(* Map clustering (src/src/map.rs)                                         *)
(***************************************************************************)
\* the clusters of the window the cell is adjacent to
Touching(x) ==
    {i \in DOMAIN clusters : \E k \in DOMAIN clusters[i] : IsNeighbor(clusters[i][k], x)}

\* how many cells of the cluster have the value
Copies(cluster, value) == Cardinality({k \in DOMAIN cluster : cluster[k].value = value})

\* the next step streams a cell that is adjacent to two clusters or more
MergingStep ==
    /\ stream # <<>>
    /\ stream' = Tail(stream)
    /\ Cardinality(Touching(Head(stream))) >= 2

\* the clusters of the window after the step that hold the streamed cell
Holding(x) == {m \in DOMAIN clusters' : x \in Values(clusters'[m])}

\* no cell is in two clusters, emitted or in the window
Apart ==
    LET all == cluster_tx \o clusters
    IN  \A i, j \in DOMAIN all : i # j => Values(all[i]) \cap Values(all[j]) = {}

\* the count and the emission of a merge: the window shrinks by k - 1, one
\* cluster holds the new cell, once, nothing is sent, the other clusters stay
MergeShape ==
    MergingStep =>
        LET x == Head(stream)
            K == Touching(x)
        IN  /\ Len(clusters') = Len(clusters) - (Cardinality(K) - 1)
            /\ Cardinality(Holding(x)) = 1
            /\ \A m \in Holding(x) :
                  /\ Copies(clusters'[m], x) = 1
                  /\ \A v \in Values(clusters'[m]) : Copies(clusters'[m], v) = 1
            /\ cluster_tx' = cluster_tx
            /\ \A i \in DOMAIN clusters \ K : \E m \in DOMAIN clusters' : clusters'[m] = clusters[i]

\* the merged cluster holds every cell of the k clusters
MergeKeepsAll ==
    MergingStep =>
        LET x == Head(stream)
        IN  \A m \in Holding(x) :
               Values(clusters'[m])
                   = {x} \cup UNION {Values(clusters[i]) : i \in Touching(x)}

\* C29: a streamed cell adjacent to k >= 2 clusters of the window merges them
\* into exactly one cluster that holds all of their cells and the new cell
\* exactly once; the window shrinks by k - 1 and no cell is ever in two clusters
C29_MergeIntoOne == [][MergeShape /\ MergeKeepsAll]_vars /\ []Apart

\* with the new cell streamed, every edge of the cell is consumed
EnclosedWith(c, x) == \A j \in 1..6 : c.edges[j] \/ Destination(c.value, j) = x

\* the cells a merge keeps: those of the latest of the k clusters, and of the
\* others the cells that are not enclosed
Kept(x) ==
    LET K      == Touching(x)
        latest == CHOOSE i \in K : \A j \in K : j <= i
    IN  Values(clusters[latest])
        \cup UNION {{clusters[i][k].value :
                        k \in {n \in DOMAIN clusters[i] : ~EnclosedWith(clusters[i][n], x)}} :
                    i \in K \ {latest}}

\* the merged cluster holds the new cell and the cells kept, and no other
MergeKeepsOpen ==
    MergingStep =>
        LET x == Head(stream)
        IN  \A m \in Holding(x) : Values(clusters'[m]) = {x} \cup Kept(x)

\* C29 amended: as C29, with the merged cluster holding the new cell, the cells
\* of the latest of the k clusters and the cells of the others that are not
\* fully enclosed
C29_MergeKeepsOpenCells == [][MergeShape /\ MergeKeepsOpen]_vars /\ []Apart

\* three clusters were merged by one cell, as in the test process_triple_merge
C29_Witness ==
    /\ trail.merged >= 2
    /\ trail.created = 3
    /\ Len(clusters) = 1
    /\ Len(trail.streamed) = 4
    /\ Values(clusters[1]) = {trail.streamed[i] : i \in 1..4}

\* how many cells of the emitted clusters have the value
Emitted(value) ==
    LET RECURSIVE Sum(_)
        Sum(i) == IF i = 0 THEN 0 ELSE Copies(cluster_tx[i], value) + Sum(i - 1)
    IN  Sum(Len(cluster_tx))

\* the cells streamed so far
Streamed == {trail.streamed[i] : i \in DOMAIN trail.streamed}

\* every cluster created is in the window or the channel, or was absorbed by
\* a merge, and once process has returned the window is empty
Accounted ==
    /\ Len(cluster_tx) + Len(clusters) = trail.created - trail.merged
    /\ trail.returned => clusters = <<>>
    /\ \A i, j \in DOMAIN cluster_tx : i # j => Values(cluster_tx[i]) \cap Values(cluster_tx[j]) = {}

\* C30: when process returns every cluster is sent exactly once, no cell is in
\* two emitted clusters, and every streamed cell is in exactly one emitted
\* cluster unless it was fully enclosed at the moment it was added
C30_Conservation ==
    /\ Accounted
    /\ trail.returned =>
          \A c \in Streamed : c \notin trail.enclosed => Emitted(c) = 1

\* the six neighbours of the cell were all streamed
Surrounded(c) == \A j \in 1..6 : Destination(c, j) \in Streamed

\* C30 amended: when process returns every cluster is sent exactly once or was
\* absorbed by a merge, no cell is in two emitted clusters, and every streamed
\* cell is in exactly one emitted cluster, once, unless it was fully enclosed
\* when it was added or when its cluster was absorbed by a merge; such a cell
\* is in no emitted cluster and its six neighbours were all streamed
C30_ConservationOfOpenCells ==
    /\ Accounted
    /\ trail.returned =>
          \A c \in Streamed :
             IF c \in trail.enclosed \cup trail.absorbed
             THEN Emitted(c) = 0 /\ Surrounded(c)
             ELSE Emitted(c) = 1

\* process has returned after evicting a cluster from a full window and
\* merging clusters, one of which held an enclosed cell
C30_Witness ==
    /\ trail.returned
    /\ trail.absorbed # {}
    /\ trail.merged >= 1
    /\ Len(cluster_tx) >= 2

====
